---- MODULE Spec2Model ----
(***************************************************************************)
(* Balance / purchase transaction engine of the storefront bot.            *)
(*                                                                         *)
(* The services run as coroutines of one asyncio event loop: a coroutine   *)
(* runs without interruption from one suspension point to the next.  The   *)
(* only suspension points of the modelled operations are a wait for a      *)
(* lock that is held and the asyncio.sleep calls of the two retry loops of *)
(* update_balance.  Every action below is one such uninterrupted run.      *)
(*                                                                         *)
(* The ledger is an SQLite database reached through one connection per     *)
(* call: a connection sees the committed rows, its writes are private      *)
(* until it commits, and while one connection has an open write            *)
(* transaction a write statement of another connection raises              *)
(* ("database is locked").                                                 *)
(***************************************************************************)
EXTENDS Integers, Sequences, FiniteSets, TLC

VARIABLES
    users,          \* table users: growid -> balance row (committed)
    user_growid,    \* table user_growid: discord_id -> growid (committed)
    stock,          \* table stock: id -> row (committed)
    transactions,   \* table transactions, in insertion order (committed)
    task,           \* the coroutines: operation, arguments, position, outcome
    locks,          \* BalanceManagerService._locks
    txLocks,        \* TransactionManager._transaction_locks (keys created)
    dbWriter,       \* task whose connection holds the open write transaction, 0 if none
    bmCache,        \* BalanceManagerService._cache
    txCache,        \* TransactionManager._cache (product entries)
    faults,         \* store errors injected so far
    acq,            \* purchase locks granted so far
    clock,          \* time.time(), in seconds since the start
    cm,             \* EnhancedSmartCacheManager: cache, timeouts, metrics
    probe,          \* the last direct cache call and what it returned
    am,             \* AutoMod: config_lock, config, the configuration commands
    products        \* table products: code -> price, name (committed)

vars == <<users, user_growid, stock, transactions, task, locks, txLocks,
          dbWriter, bmCache, txCache, faults, acq, clock, cm, probe, am, products>>

(* the variables the ledger services never touch *)
others == <<cm, probe, am, products>>

----------------------------------------------------------------------------
(* Bounds *)
NTasks == 2
NItems == 3
MaxQty == 2
MaxFaults == 1
(* the clock advances by TickStep seconds, up to MaxClock *)
TickStep == 15
MaxClock == 30
(* direct calls of a cache in one behaviour *)
MaxCacheCalls == 3
MaxHits == 1700

(* Program constants *)
MaxAttempts == 3

Tasks == 1..NTasks
Items == 1..NItems
(* "alice" is the text of "Alice" in another letter case *)
Handles == {"Alice", "Bob", "Eve", "alice"}
(* Alice and Bob have a users row at the start, Eve has none *)
UpdateHandles == {"Alice", "Eve"}
PurchaseHandles == {"Alice", "Bob"}
RegisterHandles == {"Alice", "alice"}
Ids == {"d1", "d2"}
Codes == {"p1", "p2"}
Quantities == 1..MaxQty
ApiQuantities == (0 - 1)..MaxQty
Deltas == { [wl |-> 1, dl |-> 0 - 1, bgl |-> 1],
            [wl |-> 0 - 2, dl |-> 0, bgl |-> 0],
            [wl |-> 0, dl |-> 0, bgl |-> 0 - 1] }

STATUS_AVAILABLE == "available"
STATUS_SOLD == "sold"

Max(a, b) == IF a >= b THEN a ELSE b
Min(a, b) == IF a <= b THEN a ELSE b
Abs(a) == IF a < 0 THEN 0 - a ELSE a

Balance(wl, dl, bgl) == [wl |-> wl, dl |-> dl, bgl |-> bgl]
ZeroBalance == Balance(0, 0, 0)
ZeroDelta == Balance(0, 0, 0)

(* table products at the start *)
products0 == [c \in Codes |-> IF c = "p1" THEN [price |-> 1, name |-> "P1"]
                                         ELSE [price |-> 3, name |-> "P2"]]

ItemCode(i) == IF i % 3 = 0 THEN "p2" ELSE "p1"

InitUsers == [h \in {"Alice", "Bob"} |->
                 IF h = "Alice" THEN Balance(3, 1, 0) ELSE Balance(2, 0, 0)]

InitBalance(h) == IF h \in DOMAIN InitUsers THEN InitUsers[h] ELSE ZeroBalance

IdleTask == [op |-> "none", pc |-> "idle", growid |-> "", code |-> "",
             quantity |-> 0, delta |-> ZeroDelta, discord_id |-> "",
             attempt |-> 0, outcome |-> "", items |-> <<>>,
             old |-> ZeroBalance, new |-> ZeroBalance,
             \* what a purchase met when it ran: its place in the order of the
             \* purchases, the AVAILABLE rows of its product, the buyer's WL
             seq |-> 0, seen |-> 0, funds |-> 0,
             \* what a query returned: the kind of value its caller got
             \* ("None", "value", "raise"), the handle, the records
             reported |-> "", handle |-> "", rows |-> <<>>,
             \* the `limit` argument of a history query
             limit |-> 0,
             \* 1 when the connection held writes of the operation at the
             \* moment a store call of it failed
             written |-> 0,
             \* the stages an update_balance call has been through
             phases |-> <<>>,
             \* the call holds a Lock object it acquired and has not released
             holds |-> FALSE]

BalanceUpdateKey(h) == <<"balance_update", h>>
RegisterKey(d) == <<"register", d>>
PurchaseKey(h, c) == <<"purchase", h, c>>

BalanceCacheKey(h) == <<"balance", h>>
GrowidCacheKey(d) == <<"growid", d>>
ProductCacheKey(c) == <<"product", c>>
StockCacheKey(c) == <<"stock", c>>
HistoryKey(h) == <<"history", h>>
HistoryCacheKey(h, n) == <<"trx_history", h, n>>

(* get_balance and get_growid lock the key of their cache entry *)
LockKeys ==
    {BalanceUpdateKey(h) : h \in Handles} \cup {RegisterKey(d) : d \in Ids}
        \cup {BalanceCacheKey(h) : h \in Handles} \cup {GrowidCacheKey(d) : d \in Ids}

(* d :> v @@ f of TLC, spelled out: f with key k bound to v *)
Put(f, k, v) == [x \in DOMAIN f \cup {k} |-> IF x = k THEN v ELSE f[x]]
Drop(f, S) == [x \in DOMAIN f \ S |-> f[x]]

----------------------------------------------------------------------------
(* EnhancedSmartCacheManager *)

(* self.memory_limit *)
memory_limit == 512 * 1024 * 1024

CacheKeys == {"k1", "k2"}
(* "big" is a value whose size is the whole memory limit *)
CacheValues == {"v1", "big"}
(* "other" is a category the manager has no timeout and no priority for *)
Categories == {"balance", "other"}
(* absent: the None a get returns *)
None == "None"

(* sys.getsizeof(value) *)
estimate_size(v) == IF v = "big" THEN memory_limit ELSE 1

(* self.timeouts and self.priorities as __init__ sets them *)
timeouts0 ==
    [c \in {"balance", "stock", "product", "world", "user", "transaction", "default"} |->
        CASE c = "balance" -> 30 [] c = "stock" -> 60 [] c = "product" -> 300
          [] c = "world" -> 600 [] c = "user" -> 1800 [] c = "transaction" -> 45
          [] OTHER -> 120]
priorities ==
    [c \in {"balance", "stock", "product", "world", "user", "transaction", "default"} |->
        CASE c = "balance" -> 5 [] c = "stock" -> 4 [] c = "product" -> 3
          [] c = "world" -> 2 [] c = "user" -> 1 [] c = "transaction" -> 5
          [] OTHER -> 1]

(* self.max_size, the configured capacity.  It is 1000 in __init__; get    *)
(* and set read neither it nor cleanup_threshold, so the capacity is       *)
(* scaled down to what the keys of the model can pass.                     *)
max_size == 1

(* dict.get(category, dict['default']) *)
get_or_default(d, category) == IF category \in DOMAIN d THEN d[category] ELSE d["default"]

cm0 == [cache |-> <<>>, timeouts |-> timeouts0,
        metrics |-> [hits |-> 0, misses |-> 0, evictions |-> 0]]
(* AutoMod.__init__: config_lock free, the configuration as load_config   *)
(* returns it, no command running                                          *)
NCmds == 2
Cmds == 1..NCmds
IdleCmd == [op |-> "none", state |-> FALSE, word |-> "", pc |-> "idle"]
am0 == [config_lock |-> 0,
        config |-> [enabled |-> TRUE, words |-> <<>>],
        file |-> "unwritten",
        cmd |-> [c \in Cmds |-> IdleCmd]]

probe0 == [op |-> "none", cache |-> "", key |-> "", category |-> "", ttl |-> 0,
           value |-> None, at |-> 0, n |-> 0]

IdleCaches == cm = cm0 /\ probe = probe0 /\ am = am0 /\ products = products0

(* The calls a task may issue *)
UpdateCall(h, d) ==
    [IdleTask EXCEPT !.op = "update_balance", !.pc = "start", !.growid = h, !.delta = d]
PurchaseCall(h, c, q) ==
    [IdleTask EXCEPT !.op = "process_purchase", !.pc = "start", !.growid = h,
                     !.code = c, !.quantity = q]
HistoryCall(h, n) ==
    [IdleTask EXCEPT !.op = "get_transaction_history", !.pc = "start",
                     !.growid = h, !.limit = n]
RegisterCall(d, h) ==
    [IdleTask EXCEPT !.op = "register_user", !.pc = "start", !.discord_id = d,
                     !.growid = h]

ServiceCalls ==
    {UpdateCall(h, d) : h \in UpdateHandles, d \in Deltas}
Calls ==
    ServiceCalls \cup {PurchaseCall(h, c, q) : h \in PurchaseHandles, c \in Codes, q \in Quantities}
ApiCalls ==
    ServiceCalls \cup {PurchaseCall(h, c, q) : h \in PurchaseHandles, c \in Codes, q \in ApiQuantities}

RECURSIVE Enumerate(_)
Enumerate(S) ==
    IF S = {} THEN <<>>
    ELSE LET x == CHOOSE y \in S : TRUE IN <<x>> \o Enumerate(S \ {x})

(* The tasks are interchangeable and a call does nothing before its first  *)
(* run, so the calls are fixed at the start, in one order per multiset;    *)
(* index 0 is a task that issues no call.                                  *)
Issued(calls, tk) ==
    LET list == Enumerate(calls) IN
    \E f \in [Tasks -> 0..Len(list)] :
        /\ \A t, u \in Tasks : t < u => f[t] >= f[u]
        /\ tk = [t \in Tasks |-> IF f[t] = 0 THEN IdleTask ELSE list[f[t]]]

InitStore ==
    /\ users = InitUsers
    /\ user_growid = [d \in {"d1"} |-> "Alice"]
    /\ \E rev \in BOOLEAN :
          stock = [i \in Items |->
                     [code |-> ItemCode(i),
                      added_at |-> IF rev THEN NItems + 1 - i ELSE i,
                      status |-> STATUS_AVAILABLE, buyer |-> ""]]
    /\ transactions = <<>>
    /\ locks = [k \in LockKeys |-> [exists |-> FALSE, holder |-> 0]]
    /\ txLocks = {}
    /\ dbWriter = 0
    /\ bmCache = <<>>
    /\ txCache = <<>>
    /\ faults = 0
    /\ acq = 0
    /\ clock = 0
    /\ IdleCaches

Init == InitStore /\ Issued(Calls, task)

(* The operations called directly, with any integer quantity *)
InitAPI == InitStore /\ Issued(ApiCalls, task)

----------------------------------------------------------------------------
(* The store: a write statement of task t's connection raises while the   *)
(* connection of another task has an open write transaction.               *)
database_locked(t) == dbWriter # 0 /\ dbWriter # t

(* conn.rollback(): the writes of the connection since its last commit are *)
(* undone; conn.commit(): they become the committed rows.                  *)
rollback(committed, pending) == committed
commit(committed, pending) == pending

(* faulty variant: the handler keeps what the connection wrote *)
except_keeps_writes(committed, pending) == pending

(* except Exception: conn.rollback(); raise *)
except_rollback(committed, pending) == rollback(committed, pending)

----------------------------------------------------------------------------
(* The services' built-in caches and locks *)

(* self._cache_timeout of BalanceManagerService and of TransactionManager *)
CACHE_TIMEOUT == 30
TX_CACHE_TIMEOUT == 30
(* the timeout get_growid stores its entry with *)
GROWID_TIMEOUT == 300

(* BaseLockHandler.set_cached; timeout 0 stands for None *)
set_cached(cache, key, value, timeout, now) ==
    Put(cache, key, [value |-> value, timestamp |-> now,
                     timeout |-> IF timeout = 0 THEN CACHE_TIMEOUT ELSE timeout])

(* BaseLockHandler.get_cached: is the entry of the key served at time now *)
cache_hit(cache, key, now) ==
    key \in DOMAIN cache /\ now - cache[key].timestamp < CACHE_TIMEOUT

(* BaseLockHandler.get_cached: an entry found expired is deleted *)
cache_after_get(cache, key, now) ==
    IF key \in DOMAIN cache /\ ~cache_hit(cache, key, now)
    THEN Drop(cache, {key}) ELSE cache

(* TransactionManager._set_cached / _get_cached *)
tx_set_cached(cache, key, value, now) ==
    Put(cache, key, [value |-> value, timestamp |-> now])
(* faulty variant: an entry is served whatever its age *)
tx_cache_hit_any(cache, key, now) == key \in DOMAIN cache

tx_cache_hit(cache, key, now) ==
    key \in DOMAIN cache /\ now - cache[key].timestamp < TX_CACHE_TIMEOUT
tx_cache_after_get(cache, key, now) ==
    IF key \in DOMAIN cache /\ ~tx_cache_hit(cache, key, now)
    THEN Drop(cache, {key}) ELSE cache

(* faulty variant: acquire never waits *)
locked_never(lk, key) == FALSE

(* Lock.locked(): acquire waits while the lock of the key is held *)
locked(lk, key) == lk[key].holder # 0

(* faulty variant: the wait for a held lock has no timeout *)
wait_for_ever(lk, key) ==
    IF locked(lk, key) THEN "pending" ELSE "acquired"

(* asyncio.wait_for(self._locks[key].acquire(), timeout=timeout): how the  *)
(* wait ends when the lock stays as it is                                  *)
wait_for(lk, key) ==
    IF locked(lk, key) THEN "TimeoutError" ELSE "acquired"

(* acquire_lock: the lock of the key is created when the key is not in     *)
(* self._locks, and taken                                                  *)
acquire_lock(lk, key, t) == [lk EXCEPT ![key] = [exists |-> TRUE, holder |-> t]]

(* release_lock: if key in self._locks and self._locks[key].locked()       *)
release_lock(lk, key) ==
    IF lk[key].exists /\ lk[key].holder # 0
    THEN [lk EXCEPT ![key].holder = 0] ELSE lk

----------------------------------------------------------------------------
(* update_balance *)

(* new_wl = max(0, current['balance_wl'] + wl) *)
new_counter(cur, d) == Max(0, cur + d)

(* faulty variant: the check is made on the clamped result *)
insufficient_after_clamp(cur, d) == Max(0, cur + d) < 0

(* if wl < 0 and abs(wl) > current['balance_wl']: raise *)
insufficient(cur, d) == d < 0 /\ Abs(d) > cur

(* faulty variant: the DL counter is computed from the WL column *)
new_balance_of_wrong_column(current, d) ==
    Balance(new_counter(current.wl, d.wl),
            new_counter(current.wl, d.dl),
            new_counter(current.bgl, d.bgl))

(* new_balance = Balance(new_wl, new_dl, new_bgl) *)
new_balance_of(current, d) ==
    Balance(new_counter(current.wl, d.wl),
            new_counter(current.dl, d.dl),
            new_counter(current.bgl, d.bgl))

(* One uninterrupted run of update_balance for task t, from the acquired     *)
(* lock or from a sleep to the next sleep or to the return.  cf: opening the *)
(* connection raises; rf: the SELECT of this run raises; wf: the INSERT of   *)
(* this run raises.  The result holds the task and every store and cache     *)
(* value the run leaves behind.                                              *)
(* faulty variant: the commit leaves the cache as it was *)
cache_new_balance_skipped(cache, growid, new_balance, now) == cache

(* self.set_cached(f"balance_{growid}", new_balance, timeout=30) *)
cache_new_balance(cache, growid, new_balance, now) ==
    set_cached(cache, BalanceCacheKey(growid), new_balance, 30, now)

(* faulty variant: one attempt more before the error is raised *)
last_attempt_late(attempt) == attempt = MaxAttempts

(* for attempt in range(3): ... if attempt == 2: raise *)
last_attempt(attempt) == attempt = MaxAttempts - 1

(* faulty variant: the two snapshots change places *)
balance_record_swapped(growid, old_balance, new_balance) ==
    [growid |-> growid, type |-> "UPDATE", old_balance |-> new_balance,
     new_balance |-> old_balance, items_count |-> 0, total_price |-> 0]

(* INSERT INTO transactions (growid, type, details, old_balance,           *)
(* new_balance, created_at): the row of an update, the columns of a        *)
(* purchase left at their default                                          *)
balance_record(growid, old_balance, new_balance) ==
    [growid |-> growid, type |-> "UPDATE", old_balance |-> old_balance,
     new_balance |-> new_balance, items_count |-> 0, total_price |-> 0]

UpdateFaults == {"none", "connect", "select", "insert"}

(* a run is taken with the store call f raising only when the run reaches  *)
(* that call, and within the number of store errors of the behaviour       *)
Injected(f, nfaults) ==
    /\ nfaults = (IF f = "none" THEN 0 ELSE 1)
    /\ faults + nfaults <= MaxFaults

UpdateRun(t, cf, rf, wf) ==
    LET me == task[t]
        h == me.growid
        d == me.delta
        base == [me |-> me, users |-> users, transactions |-> transactions,
                 dbWriter |-> dbWriter, bmCache |-> bmCache, nfaults |-> 0]
        \* except: conn.rollback(); raise -- finally: conn.close(); release_lock
        Raise(out, n, ph) ==
            [base EXCEPT !.me = [me EXCEPT !.pc = "done", !.outcome = out,
                                           !.phases = ph \o <<"FAILED">>],
                         !.dbWriter = IF dbWriter = t THEN 0 ELSE dbWriter,
                         !.nfaults = n]
        \* the retry loop around the INSERT, entered at attempt att; the
        \* connection has written the row me2.new
        Insert(me2, att) ==
            LET written == [users EXCEPT ![h] = me2.new] IN
            IF wf
            THEN IF last_attempt(att)
                 THEN [Raise("StoreFailure", 1, me2.phases) EXCEPT
                          !.users = except_rollback(users, written),
                          !.me.written = 1]
                 ELSE [base EXCEPT !.me = [me2 EXCEPT !.pc = "insert_sleep",
                                                      !.attempt = att + 1],
                                   !.dbWriter = t,
                                   !.nfaults = 1]
            ELSE [base EXCEPT
                    !.me = [me2 EXCEPT !.pc = "done", !.outcome = "success",
                                       !.phases = @ \o <<"RECORDED", "COMMITTED">>],
                    !.users = commit(users, written),
                    !.transactions = Append(transactions,
                        balance_record(h, me2.old, me2.new)),
                    !.dbWriter = 0,
                    !.bmCache = cache_new_balance(bmCache, h, me2.new, clock)]
        \* from the row read to the UPDATE and the first INSERT
        Write(current) ==
            LET new == new_balance_of(current, d)
            IN IF \/ insufficient(current.wl, d.wl)
                  \/ insufficient(current.dl, d.dl)
                  \/ insufficient(current.bgl, d.bgl)
               THEN Raise("InsufficientFunds", 0, <<"BALANCE_READ">>)
               ELSE IF database_locked(t)
               THEN Raise("StoreFailure", 0, <<"BALANCE_READ", "VALIDATED">>)
               ELSE Insert([me EXCEPT !.old = current, !.new = new,
                                      !.phases = <<"BALANCE_READ", "VALIDATED",
                                                   "WRITTEN">>], 0)
        \* the retry loop around the SELECT, at attempt me.attempt
        Read ==
            IF rf
            THEN IF last_attempt(me.attempt)
                 THEN Raise("StoreFailure", 1, <<>>)
                 ELSE [base EXCEPT !.me = [me EXCEPT !.pc = "read_sleep",
                                                     !.attempt = me.attempt + 1],
                                   !.nfaults = 1]
            ELSE IF h \notin DOMAIN users
            THEN IF last_attempt(me.attempt)
                 THEN Raise("NotFound", 0, <<>>)
                 ELSE [base EXCEPT !.me = [me EXCEPT !.pc = "read_sleep",
                                                     !.attempt = me.attempt + 1]]
            ELSE Write(users[h])
    IN IF me.pc = "insert_sleep" THEN Insert(me, me.attempt)
       ELSE IF me.pc = "start" /\ cf THEN Raise("StoreFailure", 1, <<>>)
       ELSE Read

update_balance(t) ==
    LET key == BalanceUpdateKey(task[t].growid) IN
    /\ task[t].op = "update_balance"
    /\ \/ task[t].pc = "start" /\ ~locked(locks, key)
       \/ task[t].pc \in {"read_sleep", "insert_sleep"}
    /\ \E f \in UpdateFaults :
          LET r == UpdateRun(t, f = "connect", f = "select", f = "insert")
              held == IF task[t].pc = "start" THEN acquire_lock(locks, key, t)
                      ELSE locks
              \* MaxFaults counts the store calls that fail: an INSERT that
              \* failed and fails again when it is retried counts once
              again == task[t].pc = "insert_sleep" /\ f = "insert"
              \* release_lock releases the Lock object the registry holds
              \* for the key: the one this call acquired unless the registry
              \* was cleared since
              released == r.me.pc = "done" /\ held[key].holder = t
          IN
            /\ IF again THEN r.nfaults = 1 ELSE Injected(f, r.nfaults)
            /\ task' = [task EXCEPT ![t] = [r.me EXCEPT !.holds = ~released]]
            /\ users' = r.users
            /\ transactions' = r.transactions
            /\ dbWriter' = r.dbWriter
            /\ bmCache' = r.bmCache
            /\ faults' = IF again THEN faults ELSE faults + r.nfaults
            /\ locks' = IF r.me.pc = "done" THEN release_lock(held, key) ELSE held
    /\ UNCHANGED <<user_growid, stock, txLocks, txCache, acq, clock>>
    /\ UNCHANGED others

(* acquire_lock returns None after the timeout: the lock stayed held *)
acquire_timeout(t) ==
    LET key == IF task[t].op = "update_balance"
               THEN BalanceUpdateKey(task[t].growid)
               ELSE RegisterKey(task[t].discord_id) IN
    /\ task[t].op \in {"update_balance", "register_user"}
    /\ task[t].pc = "start"
    /\ wait_for(locks, key) = "TimeoutError"
    /\ task' = [task EXCEPT ![t].pc = "done", ![t].outcome = "LockTimeout"]
    /\ UNCHANGED <<users, user_growid, stock, transactions, locks, txLocks,
                   dbWriter, bmCache, txCache, faults, acq, clock>>
    /\ UNCHANGED others

----------------------------------------------------------------------------
(* process_purchase *)

(* faulty variant: the status of the row is not looked at *)
available_any_status(st, code) == {i \in Items : st[i].code = code}

(* WHERE product_code = ? AND status = ? *)
available(st, code) ==
    {i \in Items : st[i].code = code /\ st[i].status = STATUS_AVAILABLE}

(* faulty variant: the rows come in id order *)
RECURSIVE order_by_id(_, _)
order_by_id(st, S) ==
    IF S = {} THEN <<>>
    ELSE LET i == CHOOSE x \in S : \A y \in S : x <= y
         IN <<i>> \o order_by_id(st, S \ {i})

(* ORDER BY added_at ASC over the rows S *)
RECURSIVE order_by_added_at(_, _)
order_by_added_at(st, S) ==
    IF S = {} THEN <<>>
    ELSE LET i == CHOOSE x \in S : \A y \in S : st[x].added_at <= st[y].added_at
         IN <<i>> \o order_by_added_at(st, S \ {i})

(* LIMIT n: SQLite puts no upper bound on the rows when n is negative *)
limit(rows, n) == IF n < 0 THEN rows ELSE SubSeq(rows, 1, Min(n, Len(rows)))

(* faulty variant: WHERE product_code = ? only, SOLD rows are selected too *)
select_stock_sold_too(st, code, quantity) ==
    limit(order_by_added_at(st, {i \in Items : st[i].code = code}), quantity)

(* SELECT id, content FROM stock WHERE ... ORDER BY added_at ASC LIMIT ? *)
select_stock(st, code, quantity) ==
    limit(order_by_added_at(st, available(st, code)), quantity)

(* faulty variant: only an empty result is refused *)
insufficient_stock_empty_only(stock_items, quantity) == Len(stock_items) = 0

(* faulty variant: the length of the result is not checked *)
insufficient_stock_never(stock_items, quantity) == FALSE

(* if len(stock_items) < quantity: raise *)
insufficient_stock(stock_items, quantity) == Len(stock_items) < quantity

(* faulty variant: the balance is compared with zero, not with the total *)
insufficient_balance_zero(balance_wl, total_price) == balance_wl < 0

(* if user['balance_wl'] < total_price: raise *)
insufficient_balance(balance_wl, total_price) == balance_wl < total_price

(* faulty variant: the balance written is the balance read *)
debit_nothing(balance_wl, total_price) == balance_wl

(* new_balance = user['balance_wl'] - total_price *)
debit(balance_wl, total_price) == balance_wl - total_price

Range(seq) == {seq[i] : i \in 1..Len(seq)}

(* faulty variant: the UPDATE binds only the first id *)
mark_sold_first_only(st, stock_ids, growid) ==
    [i \in Items |-> IF stock_ids # <<>> /\ i = stock_ids[1]
                     THEN [st[i] EXCEPT !.status = STATUS_SOLD, !.buyer = growid]
                     ELSE st[i]]

(* UPDATE stock SET status = ?, buyer_id = ? WHERE id IN (stock_ids) *)
mark_sold(st, stock_ids, growid) ==
    [i \in Items |-> IF i \in Range(stock_ids)
                     THEN [st[i] EXCEPT !.status = STATUS_SOLD, !.buyer = growid]
                     ELSE st[i]]

(* where a store call of process_purchase may raise: opening the           *)
(* connection, the UPDATE of stock, the UPDATE of users, the INSERT, the   *)
(* commit                                                                  *)
(* faulty variant: a cached balance of the handle is taken for the row *)
select_balance_cached(us, growid) ==
    IF BalanceCacheKey(growid) \in DOMAIN bmCache
    THEN bmCache[BalanceCacheKey(growid)].value.wl
    ELSE us[growid].wl

(* SELECT balance_wl FROM users WHERE growid = ? COLLATE binary *)
select_balance(us, growid) == us[growid].wl

PurchaseFaults == {"none", "connect", "mark", "debit", "append", "commit"}

(* The body of process_purchase under its lock: it holds no await, so it   *)
(* is one uninterrupted run.  f: the store call that raises in this run.   *)
PurchaseRun(t, f) ==
    LET me == task[t]
        growid == me.growid
        code == me.code
        quantity == me.quantity
        key == ProductCacheKey(code)
        cached == tx_cache_hit(txCache, key, clock)
        found == cached \/ code \in DOMAIN products
        product == IF cached THEN txCache[key].value ELSE products[code]
        cache1 == tx_cache_after_get(txCache, key, clock)
        cache2 == IF found /\ ~cached
                  THEN tx_set_cached(cache1, key, products[code], clock) ELSE cache1
        total_price == product.price * quantity
        stock_items == select_stock(stock, code, quantity)
        committed == [users |-> users, stock |-> stock, transactions |-> transactions]
        base == [me |-> me, users |-> users, stock |-> stock,
                 transactions |-> transactions, txCache |-> cache2, nfaults |-> 0]
        Raise(out) == [base EXCEPT !.me = [me EXCEPT !.pc = "done", !.outcome = out]]
        \* a store call raises when the connection has written `pending`
        Fail(pending, n, k) ==
            LET r == except_rollback(committed, pending) IN
            [Raise("StoreFailure") EXCEPT !.users = r.users, !.stock = r.stock,
                                          !.transactions = r.transactions,
                                          !.nfaults = n, !.me.written = k]
    IN IF f = "connect" THEN [Fail(committed, 1, 0) EXCEPT !.txCache = txCache]
       ELSE IF ~found THEN Raise("ProductNotFound")
       ELSE IF insufficient_stock(stock_items, quantity) THEN Raise("InsufficientStock")
       ELSE IF growid \notin DOMAIN users THEN Raise("UserNotFound")
       ELSE IF insufficient_balance(select_balance(users, growid), total_price)
            THEN Raise("InsufficientBalance")
       ELSE IF database_locked(t) THEN Fail(committed, 0, 0)
       ELSE LET new_balance == debit(select_balance(users, growid), total_price)
                w1 == [committed EXCEPT
                          !.stock = mark_sold(stock, stock_items, growid)]
                w2 == [w1 EXCEPT !.users = [users EXCEPT ![growid].wl = new_balance]]
                w3 == [w2 EXCEPT !.transactions = Append(transactions,
                          [growid |-> growid, type |-> "PURCHASE",
                           old_balance |-> <<users[growid].wl>>,
                           new_balance |-> <<new_balance>>,
                           items_count |-> quantity, total_price |-> total_price])]
                done == commit(committed, w3)
            IN IF f = "mark" THEN Fail(committed, 1, 0)
               ELSE IF f = "debit" THEN Fail(w1, 1, 1)
               ELSE IF f = "append" THEN Fail(w2, 1, 1)
               ELSE IF f = "commit" THEN Fail(w3, 1, 1)
               ELSE [base EXCEPT
                       !.me = [me EXCEPT !.pc = "done", !.outcome = "success",
                                         !.items = stock_items,
                                         !.old = users[growid],
                                         !.new = [users[growid] EXCEPT !.wl = new_balance]],
                       !.stock = done.stock,
                       !.users = done.users,
                       !.transactions = done.transactions,
                       \* self._cache.pop(balance_<growid>), pop(stock_<code>)
                       !.txCache = Drop(cache2, {BalanceCacheKey(growid),
                                                 StockCacheKey(code)})]

process_purchase(t) ==
    /\ task[t].op = "process_purchase"
    /\ task[t].pc = "start"
    /\ \E f \in PurchaseFaults :
        LET r == PurchaseRun(t, f) IN
        /\ Injected(f, r.nfaults)
        /\ task' = [task EXCEPT ![t] =
                       [r.me EXCEPT !.seq = acq + 1,
                                    !.seen = Cardinality({i \in Items :
                                                /\ stock[i].code = task[t].code
                                                /\ stock[i].status = STATUS_AVAILABLE}),
                                    !.funds = IF task[t].growid \in DOMAIN users
                                              THEN users[task[t].growid].wl ELSE 0]]
        /\ users' = r.users
        /\ stock' = r.stock
        /\ transactions' = r.transactions
        /\ txCache' = r.txCache
        /\ faults' = faults + r.nfaults
    /\ txLocks' = txLocks \cup {PurchaseKey(task[t].growid, task[t].code)}
    /\ acq' = acq + 1
    /\ UNCHANGED <<user_growid, locks, dbWriter, bmCache, clock>>
    /\ UNCHANGED others

----------------------------------------------------------------------------
(* get_transaction_history *)

(* the default of the `limit` parameter *)
DEFAULT_LIMIT == 10

Reverse(s) == [i \in 1..Len(s) |-> s[Len(s) + 1 - i]]

(* SELECT * FROM transactions WHERE growid = ? COLLATE binary              *)
(* ORDER BY created_at DESC LIMIT ?                                        *)
select_transactions(trx, growid, n) ==
    limit(Reverse(SelectSeq(trx, LAMBDA r : r.growid = growid)), n)

HistoryFaults == {"none", "connect", "select"}

(* The whole call: it has no suspension point once the lock is free, and   *)
(* the lock of `history_<growid>` is taken and released by `async with`.   *)
(* `if cached:` takes an empty cached list for a miss.  `conn` is assigned *)
(* inside the try: when get_connection() raises, the `return []` of the    *)
(* except clause is replaced by the error of `if conn:` in the finally     *)
(* clause.                                                                 *)
HistoryRun(t, f) ==
    LET me == task[t]
        key == HistoryCacheKey(me.growid, me.limit)
        hit == tx_cache_hit(txCache, key, clock) /\ txCache[key].value # <<>>
        cache1 == tx_cache_after_get(txCache, key, clock)
        results == select_transactions(transactions, me.growid, me.limit)
        End(out, rep, rows) ==
            [me EXCEPT !.pc = "done", !.outcome = out, !.reported = rep,
                       !.rows = rows]
    IN IF hit
       THEN [me |-> End("cached", "value", txCache[key].value),
             txCache |-> txCache, txLocks |-> txLocks, nfaults |-> 0]
       ELSE IF f = "connect"
       THEN [me |-> End("ConnectFailure", "raise", <<>>),
             txCache |-> cache1, txLocks |-> txLocks \cup {HistoryKey(me.growid)},
             nfaults |-> 1]
       ELSE IF f = "select"
       THEN [me |-> End("StoreFailure", "empty", <<>>),
             txCache |-> cache1, txLocks |-> txLocks \cup {HistoryKey(me.growid)},
             nfaults |-> 1]
       ELSE [me |-> End("success", "value", results),
             txCache |-> tx_set_cached(cache1, key, results, clock),
             txLocks |-> txLocks \cup {HistoryKey(me.growid)},
             nfaults |-> 0]

get_transaction_history(t) ==
    /\ task[t].op = "get_transaction_history"
    /\ task[t].pc = "start"
    /\ \E f \in HistoryFaults :
          LET r == HistoryRun(t, f) IN
            /\ Injected(f, r.nfaults)
            /\ task' = [task EXCEPT ![t] = r.me]
            /\ txCache' = r.txCache
            /\ txLocks' = r.txLocks
            /\ faults' = faults + r.nfaults
    /\ UNCHANGED <<users, user_growid, stock, transactions, locks, dbWriter,
                   bmCache, acq, clock>>
    /\ UNCHANGED others

----------------------------------------------------------------------------
(* register_user *)

(* WHERE growid = ? COLLATE binary *)
binary_equal(a, b) == a = b

(* k.startswith(key_prefix), for the keys balance_<growid>: no handle of   *)
(* Handles is a proper prefix of another                                   *)
starts_with(key, prefix) == key = prefix

(* faulty variant: the users row is written anew *)
insert_or_replace_user(us, growid) == Put(us, growid, ZeroBalance)

(* INSERT OR IGNORE INTO users (growid): a row is created, with a zero     *)
(* balance, only when the handle has none                                  *)
insert_or_ignore_user(us, growid) ==
    IF \E g \in DOMAIN us : binary_equal(g, growid) THEN us
    ELSE Put(us, growid, ZeroBalance)

(* faulty variant: an identity already linked keeps its handle *)
insert_or_ignore_link(ug, discord_id, growid) ==
    IF discord_id \in DOMAIN ug THEN ug ELSE Put(ug, discord_id, growid)

(* INSERT OR REPLACE INTO user_growid (discord_id, growid): the row of the *)
(* identity is replaced                                                    *)
insert_or_replace_link(ug, discord_id, growid) == Put(ug, discord_id, growid)

(* The body of register_user under its lock: no await, one run.  cf:       *)
(* opening the connection raises.                                          *)
RegisterRun(t, cf) ==
    LET me == task[t]
        growid == me.growid
        discord_id == me.discord_id
        existing == {g \in DOMAIN users : binary_equal(g, growid)}
        base == [me |-> me, users |-> users, user_growid |-> user_growid,
                 bmCache |-> bmCache, nfaults |-> 0]
        Raise(out) == [base EXCEPT !.me = [me EXCEPT !.pc = "done", !.outcome = out]]
    IN IF cf THEN [Raise("StoreFailure") EXCEPT !.nfaults = 1]
       ELSE IF \E g \in existing : g # growid THEN Raise("HandleConflict")
       ELSE IF database_locked(t) THEN Raise("StoreFailure")
       ELSE [base EXCEPT
               !.me = [me EXCEPT !.pc = "done", !.outcome = "success"],
               !.users = insert_or_ignore_user(users, growid),
               !.user_growid = insert_or_replace_link(user_growid, discord_id, growid),
               !.bmCache =
                   LET set == set_cached(bmCache, GrowidCacheKey(discord_id),
                                         growid, 0, clock)
                   IN Drop(set, {k \in DOMAIN set :
                                    starts_with(k, BalanceCacheKey(growid))})]

register_user(t) ==
    LET key == RegisterKey(task[t].discord_id) IN
    /\ task[t].op = "register_user"
    /\ task[t].pc = "start"
    /\ ~locked(locks, key)
    /\ \E cf \in BOOLEAN :
        LET r == RegisterRun(t, cf) IN
        /\ Injected(IF cf THEN "connect" ELSE "none", r.nfaults)
        /\ task' = [task EXCEPT ![t] = r.me]
        /\ users' = r.users
        /\ user_growid' = r.user_growid
        /\ bmCache' = r.bmCache
        /\ faults' = faults + r.nfaults
    /\ locks' = release_lock(acquire_lock(locks, key, t), key)
    /\ UNCHANGED <<stock, transactions, txLocks, dbWriter, txCache, acq, clock>>
    /\ UNCHANGED others

----------------------------------------------------------------------------
(* get_balance, get_growid *)

(* what get_balance and get_growid hand to their caller, by the way the    *)
(* call ended: every return but that of a row found or a cache hit is      *)
(* `return None`; an exception raised in the finally clause reaches the    *)
(* caller                                                                  *)
query_reports(outcome) ==
    IF outcome \in {"cached", "success"} THEN "value"
    ELSE IF outcome = "ConnectFailure" THEN "raise"
    ELSE "None"

(* what acquire_lock returns when the wait raised: None from both handlers *)
acquire_reports(error) ==
    IF error = "TimeoutError" THEN "None" ELSE "None"

QueryKey(me) == IF me.op = "get_balance" THEN BalanceCacheKey(me.growid)
                ELSE GrowidCacheKey(me.discord_id)

(* `cached = self.get_cached(cache_key); if cached: return cached`, and    *)
(* from there, with the lock free, the whole call                          *)
QueryEnd(me, out) ==
    [me EXCEPT !.pc = "done", !.outcome = out, !.reported = query_reports(out)]

(* The body of get_balance / get_growid under the lock.  cf: opening the   *)
(* connection raises; sf: the SELECT raises.  `conn` is assigned inside    *)
(* the try: when get_connection() raises, `if conn:` of the finally clause *)
(* raises in its turn and release_lock is not reached.                     *)
QueryFaults == {"none", "connect", "select"}

QueryRun(t, cf, sf) ==
    LET me == task[t]
        key == QueryKey(me)
        cache1 == cache_after_get(bmCache, key, clock)
        held == acquire_lock(locks, key, t)
        base == [me |-> me, bmCache |-> cache1, locks |-> release_lock(held, key),
                 nfaults |-> 0]
    IN IF cf THEN [base EXCEPT !.me = QueryEnd(me, "ConnectFailure"),
                               !.locks = held, !.nfaults = 1]
       ELSE IF sf THEN [base EXCEPT !.me = QueryEnd(me, "StoreFailure"),
                                    !.nfaults = 1]
       ELSE IF me.op = "get_balance"
       THEN IF me.growid \in DOMAIN users
            THEN [base EXCEPT
                    !.me = [QueryEnd(me, "success") EXCEPT !.new = users[me.growid]],
                    !.bmCache = set_cached(cache1, key, users[me.growid],
                                           CACHE_TIMEOUT, clock)]
            ELSE [base EXCEPT !.me = QueryEnd(me, "absent")]
       ELSE IF me.discord_id \in DOMAIN user_growid
            THEN [base EXCEPT
                    !.me = [QueryEnd(me, "success") EXCEPT
                               !.handle = user_growid[me.discord_id]],
                    !.bmCache = set_cached(cache1, key, user_growid[me.discord_id],
                                           GROWID_TIMEOUT, clock)]
            ELSE [base EXCEPT !.me = QueryEnd(me, "absent")]

(* the call up to its wait for the lock: a cache hit returns at once *)
query(t) ==
    LET me == task[t]
        key == QueryKey(me) IN
    /\ me.op \in {"get_balance", "get_growid"}
    /\ me.pc = "start"
    /\ IF cache_hit(bmCache, key, clock)
       THEN /\ task' = [task EXCEPT ![t] =
                  IF me.op = "get_balance"
                  THEN [QueryEnd(me, "cached") EXCEPT !.new = bmCache[key].value]
                  ELSE [QueryEnd(me, "cached") EXCEPT !.handle = bmCache[key].value]]
            /\ UNCHANGED <<bmCache, locks, faults>>
       ELSE IF locked(locks, key)
       THEN /\ task' = [task EXCEPT ![t].pc = "acquire"]
            /\ bmCache' = cache_after_get(bmCache, key, clock)
            /\ UNCHANGED <<locks, faults>>
       ELSE \E f \in QueryFaults :
               LET r == QueryRun(t, f = "connect", f = "select") IN
                 /\ Injected(f, r.nfaults)
                 /\ task' = [task EXCEPT ![t] = r.me]
                 /\ bmCache' = r.bmCache
                 /\ locks' = r.locks
                 /\ faults' = faults + r.nfaults
    /\ UNCHANGED <<users, user_growid, stock, transactions, txLocks, dbWriter,
                   txCache, acq, clock>>
    /\ UNCHANGED others

(* The lock of a query is held across a suspension point only when it was *)
(* left held by a call that ended, and no call releases it then: the wait  *)
(* of a query ends by its timeout.                                         *)
(* acquire_lock returns None after the timeout: `if not lock: return None` *)
query_timeout(t) ==
    /\ task[t].op \in {"get_balance", "get_growid"}
    /\ \/ task[t].pc = "acquire_removed"
       \/ /\ task[t].pc = "acquire"
          /\ wait_for(locks, QueryKey(task[t])) = "TimeoutError"
    /\ task' = [task EXCEPT ![t] = QueryEnd(task[t], "LockTimeout")]
    /\ UNCHANGED <<users, user_growid, stock, transactions, locks, txLocks,
                   dbWriter, bmCache, txCache, faults, acq, clock>>
    /\ UNCHANGED others

----------------------------------------------------------------------------
(* cleanup of the balance service, called when its cog is unloaded; time *)

(* BaseLockHandler.cleanup: self._cache.clear(); self._locks.clear()       *)
(* A call that waits for a lock waits for the Lock object it found in the  *)
(* registry.  Once the registry is cleared, release_lock no longer finds   *)
(* that object (`key in self._locks`), so it stays held and the wait ends  *)
(* by its timeout.                                                         *)
cleanup ==
    /\ \E k \in LockKeys : locks[k].exists
    /\ bmCache' = <<>>
    /\ locks' = [k \in LockKeys |-> [exists |-> FALSE, holder |-> 0]]
    /\ task' = [t \in Tasks |->
                  IF task[t].pc = "acquire"
                  THEN [task[t] EXCEPT !.pc = "acquire_removed"] ELSE task[t]]
    /\ UNCHANGED <<users, user_growid, stock, transactions, txLocks,
                   dbWriter, txCache, faults, acq, clock>>
    /\ UNCHANGED others

tick ==
    /\ clock + TickStep <= MaxClock
    /\ clock' = clock + TickStep
    /\ UNCHANGED <<users, user_growid, stock, transactions, task, locks, txLocks,
                   dbWriter, bmCache, txCache, faults, acq>>
    /\ UNCHANGED others

----------------------------------------------------------------------------
(* EnhancedSmartCacheManager.get and set, and the built-in cache of the    *)
(* services called directly                                                *)

(* _calculate_total_memory *)
RECURSIVE total_memory(_)
total_memory(cache) ==
    IF DOMAIN cache = {} THEN 0
    ELSE LET k == CHOOSE x \in DOMAIN cache : TRUE
         IN estimate_size(cache[k].value) + total_memory(Drop(cache, {k}))

(* _adjust_timeout; the timeouts are kept in whole seconds *)
adjust_timeout(timeouts, category, hits) ==
    LET current == get_or_default(timeouts, category)
        new == IF hits > 1000 THEN Min((current * 3) \div 2, 7200)
               ELSE IF hits > 500 THEN Min((current * 6) \div 5, 3600)
               ELSE current
    IN Put(timeouts, category, new)

(* get(key, category): the manager after the call and the value returned.  *)
(* The class has no method _remove: for an expired entry `await            *)
(* self._remove(key)` raises AttributeError, which the handler turns into  *)
(* `return None`, the entry and the counters being left as they are.       *)
cm_get_run(m, key, category, now) ==
    IF key \in DOMAIN m.cache
    THEN LET item == m.cache[key]
             timeout == get_or_default(m.timeouts, category)
         IN IF now - item.timestamp < timeout
            THEN LET hits == item.hits + 1 IN
                 [cm |-> [cache |-> [m.cache EXCEPT ![key].hits = hits,
                                                    ![key].last_access = now],
                          timeouts |-> IF hits > 100 /\ hits % 100 = 0
                                       THEN adjust_timeout(m.timeouts, category, hits)
                                       ELSE m.timeouts,
                          metrics |-> [m.metrics EXCEPT !.hits = @ + 1]],
                  value |-> item.value]
            ELSE [cm |-> m, value |-> None]
    ELSE [cm |-> [m EXCEPT !.metrics.misses = @ + 1], value |-> None]

(* set(key, value, category, max_memory); max_memory 0 stands for None.    *)
(* The class has no method _smart_cleanup: when the memory limit would be  *)
(* passed the call raises AttributeError, which the handler logs; nothing  *)
(* is stored.                                                              *)
cm_set_run(m, key, value, category, max_memory, now) ==
    LET value_size == estimate_size(value) IN
    IF max_memory # 0 /\ value_size > max_memory THEN m
    ELSE IF total_memory(m.cache) + value_size > memory_limit THEN m
    ELSE [m EXCEPT !.cache =
             Put(m.cache, key,
                 [value |-> value, timestamp |-> now,
                  priority |-> get_or_default(priorities, category),
                  hits |-> 0, last_access |-> 0, max_memory |-> max_memory,
                  category |-> category])]

cm_set ==
    /\ probe.n < MaxCacheCalls
    /\ \E k \in CacheKeys, v \in CacheValues, c \in Categories :
          /\ cm' = cm_set_run(cm, k, v, c, 0, clock)
          /\ probe' = [op |-> "set", cache |-> "manager", key |-> k, category |-> c,
                       ttl |-> get_or_default(cm.timeouts, c),
                       value |-> v, at |-> clock, n |-> probe.n + 1]
    /\ UNCHANGED <<users, user_growid, stock, transactions, task, locks, txLocks,
                   dbWriter, bmCache, txCache, faults, acq, clock, am, products>>

cm_get ==
    /\ probe.n < MaxCacheCalls
    /\ \E k \in CacheKeys, c \in Categories :
          LET r == cm_get_run(cm, k, c, clock) IN
          /\ cm' = r.cm
          /\ probe' = [op |-> "get", cache |-> "manager", key |-> k, category |-> c,
                       ttl |-> get_or_default(cm.timeouts, c),
                       value |-> r.value, at |-> clock, n |-> probe.n + 1]
    /\ UNCHANGED <<users, user_growid, stock, transactions, task, locks, txLocks,
                   dbWriter, bmCache, txCache, faults, acq, clock, am, products>>

(* the time-to-live a caller of set_cached may ask for: None, that of a    *)
(* balance, that of a handle                                               *)
Timeouts == {0, CACHE_TIMEOUT, GROWID_TIMEOUT}

(* BaseLockHandler.set_cached(key, value, timeout) *)
svc_set_cached ==
    /\ probe.n < MaxCacheCalls
    /\ \E k \in CacheKeys, v \in CacheValues \ {"big"}, timeout \in Timeouts :
          /\ bmCache' = set_cached(bmCache, k, v, timeout, clock)
          /\ probe' = [op |-> "set", cache |-> "service", key |-> k, category |-> "",
                       ttl |-> IF timeout = 0 THEN CACHE_TIMEOUT ELSE timeout,
                       value |-> v, at |-> clock, n |-> probe.n + 1]
    /\ UNCHANGED <<users, user_growid, stock, transactions, task, locks, txLocks,
                   dbWriter, txCache, faults, acq, clock, cm, am, products>>

(* BaseLockHandler.get_cached(key) *)
svc_get_cached ==
    /\ probe.n < MaxCacheCalls
    /\ \E k \in CacheKeys :
          /\ bmCache' = cache_after_get(bmCache, k, clock)
          /\ probe' = [op |-> "get", cache |-> "service", key |-> k, category |-> "",
                       ttl |-> IF k \in DOMAIN bmCache THEN bmCache[k].timeout ELSE 0,
                       value |-> IF cache_hit(bmCache, k, clock)
                                 THEN bmCache[k].value ELSE None,
                       at |-> clock, n |-> probe.n + 1]
    /\ UNCHANGED <<users, user_growid, stock, transactions, task, locks, txLocks,
                   dbWriter, txCache, faults, acq, clock, cm, am, products>>

NextCache == cm_set \/ cm_get \/ svc_set_cached \/ svc_get_cached \/ tick

InitCache == InitStore /\ task = [t \in Tasks |-> IdleTask]

SpecCache == InitCache /\ [][NextCache]_vars

----------------------------------------------------------------------------
(* AutoMod: the configuration commands toggle, addword, removeword and     *)
(* save_config                                                             *)

BannedWords == {"bad", "Bad", "spam"}

(* word.lower() *)
word_lower(w) == IF w = "Bad" THEN "bad" ELSE w

(* list.remove(x): the first occurrence goes *)
RECURSIVE list_remove(_, _)
list_remove(l, x) ==
    IF l = <<>> THEN l
    ELSE IF Head(l) = x THEN Tail(l)
    ELSE <<Head(l)>> \o list_remove(Tail(l), x)

contains(l, x) == \E i \in 1..Len(l) : l[i] = x

(* the command framework starts the handler of a command an administrator  *)
(* sent                                                                    *)
automod_invoke(c) ==
    /\ am.cmd[c].pc = "idle"
    /\ \E op \in {"toggle", "addword", "removeword"}, state \in BOOLEAN,
          word \in BannedWords :
          /\ op = "toggle" => word = "bad"
          /\ op # "toggle" => state = FALSE
          /\ am' = [am EXCEPT !.cmd[c] =
                       [op |-> op, state |-> state, word |-> word, pc |-> "start"]]
    /\ UNCHANGED <<users, user_growid, stock, transactions, task, locks, txLocks,
                   dbWriter, bmCache, txCache, faults, acq, clock, cm, probe, products>>

(* `async with self.config_lock:` is entered, by a command handler at its  *)
(* start or by the save_config it called, when the lock is free.  The      *)
(* handler changes the configuration and calls save_config, which waits    *)
(* for config_lock in its turn; removeword of a word that is not in the    *)
(* list replies under the lock instead.  save_config, once it has the      *)
(* lock, writes the file and returns to the handler, which replies.        *)
config_lock_acquired(c) ==
    LET me == am.cmd[c] IN
    /\ me.pc \in {"start", "save_config"}
    /\ am.config_lock = 0
    /\ am' =
         IF me.pc = "save_config"
         THEN [am EXCEPT !.file = am.config, !.cmd[c].pc = "reply"]
         ELSE IF me.op = "toggle"
         THEN [am EXCEPT !.config_lock = c,
                         !.config.enabled = me.state,
                         !.cmd[c].pc = "save_config"]
         ELSE IF me.op = "addword"
         THEN [am EXCEPT !.config_lock = c,
                         !.config.words = Append(@, word_lower(me.word)),
                         !.cmd[c].pc = "save_config"]
         ELSE IF contains(am.config.words, word_lower(me.word))
         THEN [am EXCEPT !.config_lock = c,
                         !.config.words = list_remove(@, word_lower(me.word)),
                         !.cmd[c].pc = "save_config"]
         ELSE [am EXCEPT !.config_lock = c, !.cmd[c].pc = "reply_locked"]
    /\ UNCHANGED <<users, user_growid, stock, transactions, task, locks, txLocks,
                   dbWriter, bmCache, txCache, faults, acq, clock, cm, probe, products>>

(* `await ctx.send(...)` returns; the reply of removeword is sent inside   *)
(* the `async with`, which then releases config_lock                       *)
automod_reply(c) ==
    /\ am.cmd[c].pc \in {"reply", "reply_locked"}
    /\ am' = [am EXCEPT !.cmd[c].pc = "done",
                        !.config_lock = IF am.cmd[c].pc = "reply_locked" THEN 0 ELSE @]
    /\ UNCHANGED <<users, user_growid, stock, transactions, task, locks, txLocks,
                   dbWriter, bmCache, txCache, faults, acq, clock, cm, probe, products>>

NextAutoMod ==
    \E c \in Cmds : automod_invoke(c) \/ config_lock_acquired(c) \/ automod_reply(c)

SpecAutoMod == InitCache /\ [][NextAutoMod]_vars

(* The cache manager under a caller that reads the same entries again and  *)
(* again within their timeout.  One step is a run of calls of get on one   *)
(* entry that takes its hit count to the next multiple of 100.             *)
HotCategories == {"user"}

(* n calls of get(key, category) in a row: the first half of them, then,  *)
(* on the manager they leave, the rest.  No get adds or removes a key; the *)
(* comparison of the keys has the first half computed before the rest.     *)
RECURSIVE cm_get_times(_, _, _, _, _)
cm_get_times(m, key, category, now, n) ==
    IF n = 0 THEN m
    ELSE IF n = 1 THEN cm_get_run(m, key, category, now).cm
    ELSE LET half == n \div 2
             m1 == cm_get_times(m, key, category, now, half)
         IN IF DOMAIN m1.cache = DOMAIN m.cache
            THEN cm_get_times(m1, key, category, now, n - half)
            ELSE m1

(* the calls of get that take an entry to the next evaluation of           *)
(* `item.hits % 100 == 0` on a multiple of 100                             *)
gets_to_threshold(hits) == 100 - (hits % 100)

hot_set ==
    /\ \E k \in CacheKeys, c \in HotCategories :
          cm' = cm_set_run(cm, k, "v1", c, 0, clock)
    /\ UNCHANGED <<users, user_growid, stock, transactions, task, locks, txLocks,
                   dbWriter, bmCache, txCache, faults, acq, clock, probe, am, products>>

hot_get ==
    /\ cm.metrics.hits < MaxHits
    /\ \E k \in DOMAIN cm.cache :
          cm' = cm_get_times(cm, k, cm.cache[k].category, clock,
                             gets_to_threshold(cm.cache[k].hits))
    /\ UNCHANGED <<users, user_growid, stock, transactions, task, locks, txLocks,
                   dbWriter, bmCache, txCache, faults, acq, clock, probe, am, products>>

NextHot == hot_set \/ hot_get

SpecHot == InitCache /\ [][NextHot]_vars

----------------------------------------------------------------------------
Run(t) ==
    \/ update_balance(t)
    \/ acquire_timeout(t)
    \/ process_purchase(t)

Next == \E t \in Tasks : Run(t)

Spec == Init /\ [][Next]_vars

SpecAPI == InitAPI /\ [][Next]_vars

(* The calls of the service specification: queries, and the writes that    *)
(* meet them                                                               *)
BalanceCall(h) ==
    [IdleTask EXCEPT !.op = "get_balance", !.pc = "start", !.growid = h]
GrowidCall(d) ==
    [IdleTask EXCEPT !.op = "get_growid", !.pc = "start", !.discord_id = d]
SvcCalls ==
    {BalanceCall(h) : h \in {"Alice", "Eve"}} \cup {GrowidCall(d) : d \in Ids}
        \cup {UpdateCall(h, [wl |-> 1, dl |-> 0 - 1, bgl |-> 1]) : h \in UpdateHandles}
        \cup {PurchaseCall("Alice", "p1", 1)}
        \cup {HistoryCall("Alice", DEFAULT_LIMIT)}
        \cup {RegisterCall(d, h) : d \in Ids, h \in RegisterHandles}

(* as InitStore, the balance of Alice being cached or not by an earlier    *)
(* get_balance                                                             *)
InitSvcStore ==
    /\ users = InitUsers
    /\ user_growid = [d \in {"d1"} |-> "Alice"]
    /\ stock = [i \in Items |->
                  [code |-> ItemCode(i), added_at |-> i,
                   status |-> STATUS_AVAILABLE, buyer |-> ""]]
    /\ transactions = <<>>
    /\ locks = [k \in LockKeys |-> [exists |-> FALSE, holder |-> 0]]
    /\ txLocks = {}
    /\ dbWriter = 0
    /\ \E warm \in BOOLEAN :
          bmCache = IF warm
                    THEN set_cached(<<>>, BalanceCacheKey("Alice"),
                                    InitUsers["Alice"], CACHE_TIMEOUT, 0)
                    ELSE <<>>
    /\ txCache = <<>>
    /\ faults = 0
    /\ acq = 0
    /\ clock = 0
    /\ IdleCaches

InitSvc == Issued(SvcCalls, task) /\ InitSvcStore

(* The balance service with its queries, the purchases, the unloading of   *)
(* the cog and the passing of time                                         *)
RunSvc(t) ==
    \/ Run(t)
    \/ register_user(t)
    \/ query(t)
    \/ query_timeout(t)
    \/ get_transaction_history(t)

NextSvc == (\E t \in Tasks : RunSvc(t)) \/ cleanup \/ tick

SpecSvc == InitSvc /\ [][NextSvc]_vars

(* The event loop runs the coroutines that are ready and fires the timers  *)
(* that are due: while some call can take a step, one is taken.  Nothing   *)
(* forces the cog to be unloaded or time to pass between two steps.        *)
LiveCalls ==
    {BalanceCall("Alice"), GrowidCall("d1"),
     UpdateCall("Eve", [wl |-> 1, dl |-> 0 - 1, bgl |-> 1]),
     UpdateCall("Alice", [wl |-> 1, dl |-> 0 - 1, bgl |-> 1]),
     PurchaseCall("Alice", "p1", 1), HistoryCall("Alice", DEFAULT_LIMIT),
     RegisterCall("d1", "Alice")}

(* Purchases that meet a balance cached before them *)
StaleCalls ==
    {PurchaseCall(h, c, q) : h \in PurchaseHandles, c \in Codes, q \in Quantities}
        \cup {BalanceCall(h) : h \in PurchaseHandles}

InitStale == Issued(StaleCalls, task) /\ InitSvcStore

NextStale ==
    \/ \E t \in Tasks : process_purchase(t) \/ query(t) \/ query_timeout(t)
    \/ tick

SpecStale == InitStale /\ [][NextStale]_vars

(* Purchases that break several preconditions at once: an unknown product, *)
(* an unknown handle, more units than the product has and than the handle  *)
(* can pay                                                                 *)
OrderCalls ==
    {PurchaseCall(h, c, q) : h \in {"Alice", "Eve"}, c \in {"p2", "p9"},
                             q \in Quantities}

InitOrder == Issued(OrderCalls, task) /\ InitStore

NextOrder == \E t \in Tasks : process_purchase(t)

SpecOrder == InitOrder /\ [][NextOrder]_vars

(* Purchases and history queries of a handle that has one update on       *)
(* record, the history having been queried (and cached) just before or not *)
HistoryCalls ==
    {PurchaseCall("Alice", "p1", q) : q \in Quantities}
        \cup {HistoryCall("Alice", DEFAULT_LIMIT)}

EarlierUpdate ==
    balance_record("Alice", [InitUsers["Alice"] EXCEPT !.wl = @ - 1], InitUsers["Alice"])

InitHistory ==
    /\ Issued(HistoryCalls, task)
    /\ users = InitUsers
    /\ user_growid = [d \in {"d1"} |-> "Alice"]
    /\ stock = [i \in Items |->
                  [code |-> ItemCode(i), added_at |-> i,
                   status |-> STATUS_AVAILABLE, buyer |-> ""]]
    /\ transactions = <<EarlierUpdate>>
    /\ locks = [k \in LockKeys |-> [exists |-> FALSE, holder |-> 0]]
    /\ \E warm \in BOOLEAN :
          /\ txCache = IF warm
                       THEN tx_set_cached(<<>>, HistoryCacheKey("Alice", DEFAULT_LIMIT),
                                select_transactions(<<EarlierUpdate>>, "Alice",
                                                    DEFAULT_LIMIT), 0)
                       ELSE <<>>
          /\ txLocks = IF warm THEN {HistoryKey("Alice")} ELSE {}
    /\ dbWriter = 0
    /\ bmCache = <<>>
    /\ faults = 0
    /\ acq = 0
    /\ clock = 0
    /\ IdleCaches

NextHistory ==
    \/ \E t \in Tasks : process_purchase(t) \/ get_transaction_history(t)
    \/ tick

SpecHistory == InitHistory /\ [][NextHistory]_vars

(* Purchases of a product whose price is changed, in the table products,  *)
(* while they are made.  No operation of the services writes the table:    *)
(* set_price is the UPDATE of the price by the product administration,     *)
(* committed in one step.                                                  *)
PriceCalls == {PurchaseCall("Alice", "p1", q) : q \in Quantities}
Prices == {1, 2}

set_price ==
    /\ \E c \in {"p1"}, price \in Prices :
          /\ products[c].price # price
          /\ products' = [products EXCEPT ![c].price = price]
    /\ dbWriter = 0
    /\ UNCHANGED <<users, user_growid, stock, transactions, task, locks, txLocks,
                   dbWriter, bmCache, txCache, faults, acq, clock, cm, probe, am>>

InitPrice == InitStore /\ Issued(PriceCalls, task)

NextPrice == (\E t \in Tasks : process_purchase(t)) \/ set_price \/ tick

SpecPrice == InitPrice /\ [][NextPrice]_vars

(* Purchases of one handle, of the same or of different products, the      *)
(* handle having the funds for one of them or for both                     *)
PairCalls == {PurchaseCall("Alice", c, q) : c \in Codes, q \in Quantities}
PairFunds == {3, 4}

InitPair ==
    /\ Issued(PairCalls, task)
    /\ \E w \in PairFunds : users = [InitUsers EXCEPT !["Alice"].wl = w]
    /\ user_growid = [d \in {"d1"} |-> "Alice"]
    /\ \E rev \in BOOLEAN :
          stock = [i \in Items |->
                     [code |-> ItemCode(i),
                      added_at |-> IF rev THEN NItems + 1 - i ELSE i,
                      status |-> STATUS_AVAILABLE, buyer |-> ""]]
    /\ transactions = <<>>
    /\ locks = [k \in LockKeys |-> [exists |-> FALSE, holder |-> 0]]
    /\ txLocks = {}
    /\ dbWriter = 0
    /\ bmCache = <<>>
    /\ txCache = <<>>
    /\ faults = 0
    /\ acq = 0
    /\ clock = 0
    /\ IdleCaches

NextPair == \E t \in Tasks : process_purchase(t)

SpecPair == InitPair /\ [][NextPair]_vars

InitLive == Issued(LiveCalls, task) /\ InitSvcStore

SpecLive == InitLive /\ [][NextSvc]_vars /\ WF_vars(\E t \in Tasks : RunSvc(t))

----------------------------------------------------------------------------
(* Properties *)

Done(t) == task[t].pc = "done"
Succeeded(t) == Done(t) /\ task[t].outcome = "success"
PurchaseTasks == {t \in Tasks : task[t].op = "process_purchase"}
UpdateTasks == {t \in Tasks : task[t].op = "update_balance"}
RegisterTasks == {t \in Tasks : task[t].op = "register_user"}

(* the rows of a product that are AVAILABLE in the committed table *)
AvailableNow(c) == {i \in Items : stock[i].code = c /\ stock[i].status = STATUS_AVAILABLE}
(* every row is AVAILABLE at the start *)
InitiallyAvailable(c) == {i \in Items : ItemCode(i) = c}

RECURSIVE SumOf(_, _)
SumOf(f(_), S) ==
    IF S = {} THEN 0
    ELSE LET x == CHOOSE y \in S : TRUE IN f(x) + SumOf(f, S \ {x})

(* the run of task t that ends its call happens in this step *)
Ends(t) == task[t].pc # "done" /\ task'[t].pc = "done"

(* C1: whatever purchases run against a product that starts with N         *)
(* AVAILABLE items, the successful ones return at most N items in total,   *)
(* no item is returned by two of them, and every item they return is SOLD  *)
(* to the handle of the purchase that returned it; no other item is SOLD.  *)
C1_NoOversell ==
    \A c \in Codes :
        LET winners == {t \in PurchaseTasks : task[t].code = c /\ Succeeded(t)}
            NItemsOf(t) == Len(task[t].items)
        IN /\ SumOf(NItemsOf, winners) <= Cardinality(InitiallyAvailable(c))
           /\ \A t, u \in winners : t # u => Range(task[t].items) \cap Range(task[u].items) = {}
           /\ \A t \in winners : \A i \in Range(task[t].items) :
                 /\ stock[i].code = c
                 /\ stock[i].status = STATUS_SOLD
                 /\ stock[i].buyer = task[t].growid
           /\ \A i \in InitiallyAvailable(c) :
                 stock[i].status = STATUS_SOLD =>
                     \E t \in winners : i \in Range(task[t].items)

(* two purchases of one product by different handles have both succeeded *)
C1_Witness ==
    \E t, u \in PurchaseTasks :
        /\ t # u /\ Succeeded(t) /\ Succeeded(u)
        /\ task[t].code = task[u].code
        /\ task[t].growid # task[u].growid
        /\ Len(task[t].items) + Len(task[u].items) >= 2

(* C2: a purchase that meets insufficient stock or insufficient funds ends *)
(* as a failure and changes no stock row, no balance and no transaction.   *)
C2_FailedPurchaseNoEffect ==
    [][\A t \in PurchaseTasks :
          Ends(t) =>
            LET c == task[t].code
                q == task[t].quantity
                h == task[t].growid
                short == Cardinality(AvailableNow(c)) < q
                broke == h \in DOMAIN users /\ users[h].wl < products[c].price * q
            IN /\ task'[t].outcome \in {"InsufficientStock", "InsufficientBalance"}
                    => UNCHANGED <<users, stock, transactions>>
               /\ (short \/ broke)
                    => /\ task'[t].outcome # "success"
                       /\ UNCHANGED <<users, stock, transactions>>]_vars

(* one purchase has failed for stock and another for funds *)
C2_Witness ==
    \E t, u \in PurchaseTasks :
        /\ Done(t) /\ task[t].outcome = "InsufficientStock"
        /\ Done(u) /\ task[u].outcome = "InsufficientBalance"

(* what the committed updates and purchases of handle h add up to *)
Committed(h) ==
    LET ups == {t \in UpdateTasks : task[t].growid = h /\ Succeeded(t)}
        buys == {t \in PurchaseTasks : task[t].growid = h /\ Succeeded(t)}
        Wl(t) == task[t].delta.wl
        Dl(t) == task[t].delta.dl
        Bgl(t) == task[t].delta.bgl
        Paid(t) == products[task[t].code].price * task[t].quantity
    IN Balance(InitBalance(h).wl + SumOf(Wl, ups) - SumOf(Paid, buys),
               InitBalance(h).dl + SumOf(Dl, ups),
               InitBalance(h).bgl + SumOf(Bgl, ups))

NonNegative(b) == b.wl >= 0 /\ b.dl >= 0 /\ b.bgl >= 0

(* the balance an open write transaction of update_balance holds *)
Pending == {task[t].new : t \in {u \in UpdateTasks : task[u].pc = "insert_sleep"}}

(* C3 as amended: at every moment the ledger balance of a handle that only *)
(* updateBalance calls have written is its initial balance plus the deltas *)
(* of the calls that committed: no committed update is lost, a rejected    *)
(* call adds nothing (it is not clamped in), and no balance, committed or  *)
(* written and not yet committed, is negative.                             *)
C3_NoLostUpdate ==
    /\ \A h \in DOMAIN users :
          /\ NonNegative(users[h])
          /\ (\A t \in PurchaseTasks : task[t].growid = h => ~Succeeded(t))
                => users[h] = Committed(h)
    /\ \A b \in Pending : NonNegative(b)

(* two updates of one handle have committed, one of them after a retry    *)
(* during which it held the handle's lock                                 *)
C3_Witness ==
    \E t, u \in UpdateTasks :
        /\ t # u /\ task[t].growid = task[u].growid
        /\ Succeeded(t) /\ Succeeded(u)
        /\ faults > 0

Perms(S) == {f \in [1..Cardinality(S) -> S] : \A i, j \in DOMAIN f : i # j => f[i] # f[j]}

RECURSIVE ClampedFold(_, _, _)
ClampedFold(b, order, i) ==
    IF i > Len(order) THEN b
    ELSE LET d == task[order[i]].delta
         IN ClampedFold(Balance(Max(0, b.wl + d.wl), Max(0, b.dl + d.dl),
                                Max(0, b.bgl + d.bgl)), order, i + 1)

(* C3 as stated: once the updateBalance calls of a handle have all         *)
(* returned (committed or rejected for funds), the balance is the initial  *)
(* balance with all their deltas added, clamped at zero per step, in some  *)
(* order of the calls.                                                     *)
C3_Original ==
    \A h \in DOMAIN users :
        LET ups == {t \in UpdateTasks : task[t].growid = h}
        IN (/\ ups # {}
            /\ \A t \in ups : Done(t) /\ task[t].outcome \in {"success", "InsufficientFunds"}
            /\ \A t \in PurchaseTasks : task[t].growid = h => ~Succeeded(t))
           => \E order \in Perms(ups) : users[h] = ClampedFold(InitBalance(h), order, 1)

(* C4: no counter of any balance is negative, whatever integer arguments   *)
(* updateBalance and processPurchase are called with, and a call that      *)
(* would take a counter below zero ends as a failure without having        *)
(* written anything.                                                       *)
C4_NonNegative ==
    [][/\ \A h \in DOMAIN users' : NonNegative(users'[h])
       /\ \A t \in UpdateTasks : task'[t].pc = "insert_sleep" => NonNegative(task'[t].new)
       /\ \A t \in UpdateTasks :
            (/\ task[t].pc \in {"start", "read_sleep"} /\ task'[t] # task[t]
             /\ task[t].growid \in DOMAIN users
             /\ ~NonNegative(Balance(users[task[t].growid].wl + task[t].delta.wl,
                                     users[task[t].growid].dl + task[t].delta.dl,
                                     users[task[t].growid].bgl + task[t].delta.bgl)))
            => /\ task'[t].outcome # "success" /\ task'[t].pc # "insert_sleep"
               /\ UNCHANGED <<users, transactions, dbWriter>>
       /\ \A t \in PurchaseTasks :
            (/\ Ends(t) /\ task[t].growid \in DOMAIN users
             /\ users[task[t].growid].wl - products[task[t].code].price * task[t].quantity < 0)
            => /\ task'[t].outcome # "success"
               /\ UNCHANGED <<users, stock, transactions, dbWriter>>]_vars

(* a purchase has been refused for funds, an update has been refused for   *)
(* funds, and a purchase with a negative quantity has gone through         *)
C4_Witness ==
    /\ \E t \in PurchaseTasks : Done(t) /\ task[t].outcome = "InsufficientBalance"
    /\ \E t \in PurchaseTasks : Succeeded(t) /\ task[t].quantity < 0

C6_LastUnits ==
    \A t, u \in PurchaseTasks :
        (/\ t # u /\ Done(t) /\ Done(u)
         /\ task[t].code = task[u].code
         /\ task[t].quantity = 2 /\ task[u].quantity = 2
         /\ task[t].seq < task[u].seq
         /\ task[t].seen = 2
         /\ \A w \in {t, u} : /\ task[w].growid \in DOMAIN users
                              /\ task[w].funds >= products[task[w].code].price * 2
                              /\ task[w].outcome # "StoreFailure"
         /\ \A w \in PurchaseTasks \ {t, u} :
               (Done(w) /\ task[w].code = task[t].code)
               => ~(task[t].seq < task[w].seq /\ task[w].seq < task[u].seq))
        => /\ task[t].outcome = "success" /\ Len(task[t].items) = 2
           /\ task[u].outcome = "InsufficientStock" /\ task[u].items = <<>>
           /\ task[u].seen = 0

(* two buyers who could pay have raced for the last 2 items *)
C6_Witness ==
    \E t, u \in PurchaseTasks :
        /\ t # u /\ Done(t) /\ Done(u)
        /\ task[t].code = task[u].code /\ task[t].growid # task[u].growid
        /\ task[t].quantity = 2 /\ task[u].quantity = 2
        /\ task[t].seen = 2 /\ task[t].seq < task[u].seq
        /\ task[u].funds >= products[task[u].code].price * 2
        /\ task[u].outcome = "InsufficientStock"

(* C7: a successful purchase of k units returns, in age order, and marks   *)
(* SOLD exactly the k items of the product that were AVAILABLE and had the *)
(* smallest addition times; no other row changes status.                   *)
C7_Fifo ==
    [][\A t \in PurchaseTasks :
          (Ends(t) /\ task'[t].outcome = "success")
          => LET A == AvailableNow(task[t].code)
                 got == task'[t].items
                 S == Range(got)
             IN /\ Len(got) = task[t].quantity
                /\ Cardinality(S) = task[t].quantity
                /\ S \subseteq A
                /\ \A i \in S : \A j \in A \ S : stock[i].added_at < stock[j].added_at
                /\ \A i, j \in 1..Len(got) :
                      i < j => stock[got[i]].added_at < stock[got[j]].added_at
                /\ {i \in Items : stock'[i].status # stock[i].status} = S
                /\ \A i \in S : stock'[i].status = STATUS_SOLD]_vars

(* a purchase of one unit took the oldest item although a younger item of  *)
(* the product with a smaller id was AVAILABLE and still is                *)
C7_Witness ==
    \E t \in PurchaseTasks :
        /\ Succeeded(t) /\ task[t].quantity = 1
        /\ \E j \in AvailableNow(task[t].code) :
              /\ j < task[t].items[1]
              /\ stock[task[t].items[1]].added_at < stock[j].added_at

Exceeds(cur, d) == d < 0 /\ 0 - d > cur

(* C8: the run of updateBalance that reads a balance of which some counter *)
(* is smaller than the decrease asked for ends the call with               *)
(* InsufficientFunds (unless the store fails first) and leaves the         *)
(* balance, the transaction log and the cache as they were.                *)
C8_RejectedDecrease ==
    [][\A t \in UpdateTasks :
          LET h == task[t].growid
              d == task[t].delta
          IN (/\ task[t].pc \in {"start", "read_sleep"}
              /\ task'[t] # task[t]
              /\ h \in DOMAIN users
              /\ \/ Exceeds(users[h].wl, d.wl)
                 \/ Exceeds(users[h].dl, d.dl)
                 \/ Exceeds(users[h].bgl, d.bgl))
             => /\ UNCHANGED <<users, transactions, bmCache>>
                /\ task'[t].outcome # "success"
                /\ task'[t].pc # "insert_sleep"
                /\ (faults' = faults /\ locks[BalanceUpdateKey(h)].holder \in {0, t})
                      => task'[t].pc = "done" /\ task'[t].outcome = "InsufficientFunds"]_vars

(* a decrease of DL has been refused while the handle's balance was cached *)
C8_Witness ==
    \E t \in UpdateTasks :
        /\ Done(t) /\ task[t].outcome = "InsufficientFunds"
        /\ task[t].delta.dl < 0
        /\ BalanceCacheKey(task[t].growid) \in DOMAIN bmCache

(* C9: a purchase called with a quantity below 1 is refused and changes    *)
(* no stock row, no balance and no transaction.                            *)
C9_QuantityRejected ==
    [][\A t \in PurchaseTasks :
          (Ends(t) /\ task[t].quantity < 1)
          => /\ task'[t].outcome # "success"
             /\ UNCHANGED <<users, stock, transactions>>]_vars

(* C10: no two identity keys are bound to one handle, and a register of a  *)
(* handle that is bound to another identity key is refused and binds       *)
(* nothing.                                                                *)
C10_OneOwner ==
    [][/\ (\A d, e \in DOMAIN user_growid : d # e => user_growid[d] # user_growid[e])'
       /\ \A t \in RegisterTasks :
            (/\ Ends(t)
             /\ \E d \in DOMAIN user_growid :
                   d # task[t].discord_id /\ user_growid[d] = task[t].growid)
            => /\ task'[t].outcome # "success"
               /\ UNCHANGED user_growid]_vars

(* the text of a handle with its letter case folded *)
lower(h) == IF h = "Alice" THEN "alice"
            ELSE IF h = "Bob" THEN "bob"
            ELSE IF h = "Eve" THEN "eve" ELSE h

(* C11: a register of a handle whose text, in another letter case, is the  *)
(* handle of an existing users row is refused with HandleConflict (no      *)
(* store error being met) and leaves the users and user_growid rows as     *)
(* they are.                                                               *)
C11_CaseConflict ==
    [][\A t \in RegisterTasks :
          (/\ Ends(t)
           /\ faults' = faults /\ ~database_locked(t)
           /\ \E g \in DOMAIN users :
                 g # task[t].growid /\ lower(g) = lower(task[t].growid))
          => /\ task'[t].outcome = "HandleConflict"
             /\ UNCHANGED <<users, user_growid>>]_vars

(* C12: a register that meets no store error and whose identity key is     *)
(* already bound to its handle succeeds and changes no users and no        *)
(* user_growid row; every register that succeeds leaves the identity key   *)
(* bound to the handle and to nothing else, one users row for the handle,  *)
(* and the balance of a handle that had a row as it was.                   *)
C12_RegisterIdempotent ==
    [][\A t \in RegisterTasks :
          Ends(t) =>
            LET d == task[t].discord_id
                h == task[t].growid
            IN /\ (/\ faults' = faults /\ ~database_locked(t)
                   /\ d \in DOMAIN user_growid /\ user_growid[d] = h
                   /\ h \in DOMAIN users)
                  => /\ task'[t].outcome = "success"
                     /\ UNCHANGED <<users, user_growid>>
               /\ task'[t].outcome = "success"
                  => /\ DOMAIN user_growid' = DOMAIN user_growid \cup {d}
                     /\ user_growid'[d] = h
                     /\ \A e \in DOMAIN user_growid \ {d} :
                           user_growid'[e] = user_growid[e]
                     /\ DOMAIN users' = DOMAIN users \cup {h}
                     /\ \A g \in DOMAIN users : users'[g] = users[g]
                     /\ h \notin DOMAIN users => users'[h] = ZeroBalance]_vars

(* two registers with the same arguments have both succeeded, for a handle *)
(* that had a balance, and the balance is what it was                      *)
C12_Witness ==
    \E t \in RegisterTasks, u \in RegisterTasks :
        /\ t # u
        /\ task[t].discord_id = task[u].discord_id
        /\ task[t].growid = task[u].growid
        /\ Succeeded(t) /\ Succeeded(u)
        /\ task[t].growid \in DOMAIN InitUsers
        /\ users[task[t].growid] = InitUsers[task[t].growid]
        /\ user_growid[task[t].discord_id] = task[t].growid

(* C13: a call that has returned holds no lock of the registry, whatever   *)
(* the way it ended; hence no lock is held when no call is in progress.    *)
C13_LocksReleased ==
    \A k \in LockKeys :
        locks[k].holder # 0 => ~Done(locks[k].holder)

(* the tasks inside the section that the lock of key k protects *)
Inside(k) ==
    {t \in UpdateTasks : /\ BalanceUpdateKey(task[t].growid) = k
                         /\ task[t].pc \in {"read_sleep", "insert_sleep"}}

(* C14: at every time at most one task is inside the section protected by  *)
(* the lock of a key, and a lock that exists for a key stays in the        *)
(* registry.                                                               *)
C14_OneHolder ==
    [][\A k \in LockKeys :
          /\ Cardinality(Inside(k)') <= 1
          /\ locks[k].exists => locks'[k].exists]_vars

(* C15: a call that waits for the lock of its key stops waiting: it gets   *)
(* the lock or, the lock staying held, ends with LockTimeout.  The locks   *)
(* of process_purchase and of get_transaction_history are taken without a  *)
(* timeout and are never found held.                                       *)
LockOf(t) ==
    IF task[t].op = "update_balance" THEN BalanceUpdateKey(task[t].growid)
    ELSE IF task[t].op = "register_user" THEN RegisterKey(task[t].discord_id)
    ELSE QueryKey(task[t])

HolderOfLock(t) ==
    IF task[t].op \in {"update_balance", "register_user", "get_balance", "get_growid"}
    THEN locks[LockOf(t)].holder ELSE 0

Waiting(t) ==
    \/ task[t].pc \in {"start", "acquire"} /\ HolderOfLock(t) # 0
    \/ task[t].pc = "acquire_removed"

C16_TimeoutDistinct ==
    \A t \in Tasks :
        /\ task[t].op \in {"get_balance", "get_growid"}
        /\ task[t].outcome = "LockTimeout"
        => /\ task[t].reported # query_reports("absent")
           /\ task[t].reported # query_reports("StoreFailure")
           /\ acquire_reports("TimeoutError") # acquire_reports("Exception")

(* C17: an item changes at most once, from AVAILABLE to SOLD with the      *)
(* buyer's handle, in the step of a purchase that succeeds and delivers    *)
(* it; a SOLD item never changes again and no purchase that succeeds       *)
(* delivers an item that was SOLD before it ran.                           *)
C17_ItemLifecycle ==
    [][/\ \A i \in Items :
            /\ stock[i].status = STATUS_SOLD => stock'[i] = stock[i]
            /\ stock'[i] # stock[i] =>
                  /\ stock[i].status = STATUS_AVAILABLE
                  /\ stock'[i].status = STATUS_SOLD
                  /\ stock'[i].code = stock[i].code
                  /\ \E t \in PurchaseTasks :
                        /\ ~Done(t) /\ Succeeded(t)'
                        /\ i \in Range(task'[t].items)
                        /\ stock'[i].buyer = task[t].growid
       /\ \A t \in PurchaseTasks :
            ~Done(t) /\ Succeeded(t)' =>
                \A i \in Range(task'[t].items) :
                    stock[i].status = STATUS_AVAILABLE]_vars

C17_Witness ==
    \E t, u \in PurchaseTasks :
        /\ Succeeded(t) /\ Succeeded(u)
        /\ task[t].code = task[u].code
        /\ task[t].seq < task[u].seq
        /\ Range(task[t].items) \cap Range(task[u].items) = {}
        /\ \A i \in Range(task[t].items) :
              stock[i].status = STATUS_SOLD /\ stock[i].buyer = task[t].growid

(* C18: when a store call of process_purchase or update_balance fails,    *)
(* whatever the operation had written before, the step that ends the       *)
(* operation leaves the users, the stock and the transactions as they were *)
(* committed, and the operation ends with the failure.                     *)
C18_Rollback ==
    [][\A t \in Tasks :
          /\ task[t].op \in {"process_purchase", "update_balance"}
          /\ ~Done(t)
          /\ Done(t)' /\ task'[t].outcome = "StoreFailure"
          => /\ UNCHANGED <<users, stock, transactions>>
             /\ task[t].op = "process_purchase" =>
                   \A i \in Range(select_stock(stock, task[t].code, task[t].quantity)) :
                       stock'[i].status = STATUS_AVAILABLE /\ stock'[i].buyer = ""]_vars

C18_Witness ==
    \E t \in Tasks :
        /\ Done(t) /\ task[t].outcome = "StoreFailure"
        /\ task[t].written > 0
        /\ \/ task[t].op = "update_balance" /\ task[t].attempt = MaxAttempts - 1
           \/ task[t].op = "process_purchase"

(* C19: a get_balance that returns a balance once a purchase of the handle *)
(* has succeeded returns the balance of the ledger, not one cached before  *)
(* the purchase.                                                           *)
C19_FreshAfterPurchase ==
    [][\A t \in Tasks :
          /\ task[t].op = "get_balance"
          /\ ~Done(t) /\ Done(t)'
          /\ task'[t].reported = "value"
          /\ \E u \in PurchaseTasks :
                Succeeded(u) /\ task[u].growid = task[t].growid
          => task'[t].new = users[task[t].growid]]_vars

(* C20: in either cache, a get that follows a set of the same key (and     *)
(* category) with no other cache call in between returns the value set     *)
(* while the time-to-live of the entry has not elapsed, and nothing once   *)
(* it has.                                                                 *)
C20_RoundTrip ==
    [][/\ probe.op = "set" /\ probe'.op = "get"
       /\ probe'.cache = probe.cache
       /\ probe'.key = probe.key
       /\ probe'.category = probe.category
       => probe'.value = IF clock - probe.at < probe.ttl
                         THEN probe.value ELSE None]_vars

(* C21: the cache manager never holds more entries than its capacity.     *)
C21_Bounded == Cardinality(DOMAIN cm.cache) <= max_size

(* C22: when a set of the cache manager calls for an eviction pass (the    *)
(* memory limit would be passed) over entries of equal age, hits and last  *)
(* access but different priorities, an entry of the lowest priority is     *)
(* removed and no entry of a higher priority is removed while one of a     *)
(* lower priority stays.                                                   *)
EvictionCalled ==
    /\ probe'.op = "set" /\ probe'.cache = "manager"
    /\ total_memory(cm.cache) + estimate_size(probe'.value) > memory_limit

Comparable(c) ==
    /\ \E j, k \in DOMAIN c : c[j].priority # c[k].priority
    /\ \A j, k \in DOMAIN c : /\ c[j].timestamp = c[k].timestamp
                              /\ c[j].hits = c[k].hits
                              /\ c[j].last_access = c[k].last_access

C22_LowestPriorityFirst ==
    [][EvictionCalled /\ Comparable(cm.cache) =>
          /\ \E k \in DOMAIN cm.cache \ DOMAIN cm'.cache :
                \A j \in DOMAIN cm.cache : cm.cache[k].priority <= cm.cache[j].priority
          /\ \A k \in DOMAIN cm.cache \ DOMAIN cm'.cache :
                \A j \in DOMAIN cm.cache \cap DOMAIN cm'.cache :
                    cm.cache[k].priority <= cm.cache[j].priority]_vars

UpdateStages == <<"BALANCE_READ", "VALIDATED", "WRITTEN", "RECORDED">>

IsPrefix(p, q) == Len(p) <= Len(q) /\ \A i \in 1..Len(p) : p[i] = q[i]

Terminated(t) ==
    \/ /\ task[t].outcome = "success"
       /\ task[t].phases = UpdateStages \o <<"COMMITTED">>
    \/ /\ task[t].outcome \notin {"success", "LockTimeout"}
       /\ Len(task[t].phases) \in 1..Len(UpdateStages)
       /\ task[t].phases[Len(task[t].phases)] = "FAILED"
       /\ IsPrefix(SubSeq(task[t].phases, 1, Len(task[t].phases) - 1), UpdateStages)

C24_StateMachine ==
    /\ [](\A t \in Tasks :
             task[t].op = "update_balance" =>
                IF Done(t)
                THEN \/ task[t].outcome = "LockTimeout" /\ task[t].phases = <<>>
                     \/ /\ Terminated(t)
                        /\ ~task[t].holds
                        /\ locks[BalanceUpdateKey(task[t].growid)].holder # t
                ELSE IsPrefix(task[t].phases, UpdateStages))
    /\ [][\A t \in Tasks :
             /\ task[t].op = "update_balance"
             /\ ~Done(t) /\ Done(t)' /\ ~Succeeded(t)'
             => UNCHANGED <<users, transactions>>]_vars
    /\ \A t \in Tasks :
          (task[t].op = "update_balance" /\ task[t].pc \in {"read_sleep", "insert_sleep"})
              ~> Done(t)

(* C25: a purchase that no store failure ends reports the first of its    *)
(* preconditions that does not hold, in the order product known, enough    *)
(* AVAILABLE items, handle known, enough WL; it succeeds when all hold.     *)
FirstViolated(t) ==
    LET me == task[t]
        n == Cardinality({i \in Items : /\ stock[i].code = me.code
                                        /\ stock[i].status = STATUS_AVAILABLE})
    IN IF me.code \notin DOMAIN products THEN "ProductNotFound"
       ELSE IF n < me.quantity THEN "InsufficientStock"
       ELSE IF me.growid \notin DOMAIN users THEN "UserNotFound"
       ELSE IF users[me.growid].wl < products[me.code].price * me.quantity
       THEN "InsufficientBalance"
       ELSE "success"

C25_FirstFailureWins ==
    [][\A t \in PurchaseTasks :
          ~Done(t) /\ Done(t)' /\ task'[t].outcome # "StoreFailure"
          => task'[t].outcome = FirstViolated(t)]_vars

C25_Witness ==
    \E t, u \in PurchaseTasks :
        /\ Done(t) /\ task[t].growid = "Eve" /\ task[t].code = "p9"
        /\ task[t].outcome = "ProductNotFound"
        /\ Done(u) /\ task[u].code = "p2" /\ task[u].seen < task[u].quantity
        /\ task[u].funds < products["p2"].price * task[u].quantity
        /\ task[u].outcome = "InsufficientStock"

(* C26: a purchase that succeeds marks exactly `quantity` items of the     *)
(* product SOLD with the handle as buyer, lowers the WL of the handle by   *)
(* price * quantity and leaves every other counter as it was, appends one  *)
(* record with the item count, the total and the balances before and       *)
(* after, and returns the items it marked and the new balance.             *)
C26_PurchaseEffects ==
    [][\A t \in PurchaseTasks :
          ~Done(t) /\ Succeeded(t)' =>
            LET me == task[t]
                g == me.growid
                total == products[me.code].price * me.quantity
                sold == {i \in Items : stock'[i] # stock[i]}
            IN /\ Cardinality(sold) = me.quantity
               /\ \A i \in sold : /\ stock[i].code = me.code
                                  /\ stock[i].status = STATUS_AVAILABLE
                                  /\ stock'[i] = [stock[i] EXCEPT
                                                     !.status = STATUS_SOLD,
                                                     !.buyer = g]
               /\ users' = [users EXCEPT ![g].wl = @ - total]
               /\ transactions' = Append(transactions,
                      [growid |-> g, type |-> "PURCHASE",
                       old_balance |-> <<users[g].wl>>,
                       new_balance |-> <<users[g].wl - total>>,
                       items_count |-> me.quantity, total_price |-> total])
               /\ Range(task'[t].items) = sold
               /\ Len(task'[t].items) = me.quantity
               /\ task'[t].new = users'[g]]_vars

(* C27: the records of a handle that only update_balance calls have       *)
(* written form a chain in commit order, from the initial balance of the   *)
(* handle to its ledger balance, each record starting from the balance the *)
(* one before it ended with; a record once inserted is never changed or    *)
(* removed.                                                                *)
RecordsOf(h) == SelectSeq(transactions, LAMBDA r : r.growid = h)

Chained(h) ==
    LET rs == RecordsOf(h) IN
    IF rs = <<>> THEN users[h] = InitBalance(h)
    ELSE /\ rs[1].old_balance = InitBalance(h)
         /\ \A i \in 1..(Len(rs) - 1) : rs[i + 1].old_balance = rs[i].new_balance
         /\ rs[Len(rs)].new_balance = users[h]

C27_AuditChain ==
    /\ [](\A h \in DOMAIN users :
             (\A t \in PurchaseTasks : task[t].growid = h => ~Succeeded(t))
                => Chained(h))
    /\ [][/\ Len(transactions') >= Len(transactions)
          /\ SubSeq(transactions', 1, Len(transactions)) = transactions]_vars

C27_Witness ==
    /\ Len(RecordsOf("Alice")) >= 2
    /\ \A t \in PurchaseTasks : task[t].growid = "Alice" => ~Succeeded(t)
    /\ \E t \in UpdateTasks : Succeeded(t) /\ task[t].attempt > 0

(* C28: the INSERT of the record is tried at most MaxAttempts times.  An   *)
(* update that commits appends exactly one record, whichever attempt went  *)
(* through; when the last attempt fails too the call ends with the failure *)
(* and neither the balance nor the transactions have changed.              *)
C28_BoundedRetry ==
    [][\A t \in UpdateTasks :
          /\ task'[t].attempt <= MaxAttempts - 1
          /\ ~Done(t) /\ Succeeded(t)' =>
                /\ Len(transactions') = Len(transactions) + 1
                /\ SubSeq(transactions', 1, Len(transactions)) = transactions
                /\ transactions'[Len(transactions')].growid = task[t].growid
                /\ transactions'[Len(transactions')].new_balance = users'[task[t].growid]
          /\ task[t].pc = "insert_sleep" =>
                /\ UNCHANGED transactions \/ Succeeded(t)' \/ task'[t] = task[t]
                /\ task[t].attempt = MaxAttempts - 1 /\ task'[t] # task[t]
                   /\ ~Succeeded(t)' =>
                      /\ Done(t)' /\ task'[t].outcome = "StoreFailure"
                      /\ UNCHANGED <<users, transactions>>]_vars

C28_Witness ==
    \E t, u \in UpdateTasks :
        /\ Succeeded(t) /\ task[t].attempt = MaxAttempts - 1
        /\ Len(RecordsOf(task[t].growid)) = 1
        /\ Done(u) /\ task[u].outcome = "LockTimeout"

(* C29: the step in which update_balance commits leaves the committed new *)
(* balance in the balance cache of the handle, served from that moment; a  *)
(* get_balance that starts while the entry is served returns its value; a  *)
(* step in which update_balance ends without success changes no cache      *)
(* entry.                                                                  *)
BalanceTasks == {t \in Tasks : task[t].op = "get_balance"}

C29_CacheAfterUpdate ==
    [][/\ \A t \in UpdateTasks :
            LET key == BalanceCacheKey(task[t].growid) IN
            /\ ~Done(t) /\ Succeeded(t)' =>
                  /\ cache_hit(bmCache', key, clock')
                  /\ bmCache'[key].value = users'[task[t].growid]
                  /\ bmCache'[key].value = task'[t].new
            /\ ~Done(t) /\ Done(t)' /\ ~Succeeded(t)' => UNCHANGED bmCache
       /\ \A t \in BalanceTasks :
            LET key == BalanceCacheKey(task[t].growid) IN
            task[t].pc = "start" /\ cache_hit(bmCache, key, clock)
               /\ task'[t] # task[t] =>
                  /\ Done(t)' /\ task'[t].reported = "value"
                  /\ task'[t].new = bmCache[key].value]_vars

C29_Witness ==
    \E t \in UpdateTasks, q \in BalanceTasks :
        /\ task[t].growid = task[q].growid
        /\ Succeeded(t)
        /\ Done(q) /\ task[q].outcome = "cached"
        /\ task[q].new = task[t].new
        /\ task[q].new = users[task[q].growid]
        /\ task[q].new # InitBalance(task[q].growid)

(* C30: the step in which register_user succeeds leaves the identity      *)
(* linked to the handle, in the table and in the served cache entry, also  *)
(* when the identity was linked to another handle before; every get_growid *)
(* that returns a value returns the handle the table links the identity    *)
(* to; a register_user that ends without success changes neither the links *)
(* nor the cache.                                                          *)
GrowidTasks == {t \in Tasks : task[t].op = "get_growid"}

C30_ReadYourWrites ==
    [][/\ \A t \in RegisterTasks :
            LET d == task[t].discord_id
                key == GrowidCacheKey(d) IN
            /\ ~Done(t) /\ Succeeded(t)' =>
                  /\ d \in DOMAIN user_growid'
                  /\ user_growid'[d] = task[t].growid
                  /\ cache_hit(bmCache', key, clock')
                  /\ bmCache'[key].value = task[t].growid
            /\ ~Done(t) /\ Done(t)' /\ ~Succeeded(t)' =>
                  UNCHANGED <<user_growid, bmCache>>
       /\ \A q \in GrowidTasks :
            ~Done(q) /\ Done(q)' /\ task'[q].reported = "value" =>
                  /\ task[q].discord_id \in DOMAIN user_growid
                  /\ task'[q].handle = user_growid[task[q].discord_id]]_vars

C30_Witness ==
    \E t \in RegisterTasks, q \in GrowidTasks :
        /\ task[t].discord_id = task[q].discord_id
        /\ Succeeded(t)
        /\ Done(q) /\ task[q].reported = "value"
        /\ task[q].handle = task[t].growid
        /\ task[q].handle = user_growid[task[q].discord_id]
        /\ task[q].discord_id = "d1" /\ task[q].handle # "Alice"

(* C31: a get of the cache manager returns the stored value only while the *)
(* entry is younger than the timeout of the category asked for; for an     *)
(* older entry it returns nothing and the entry is gone when it returns.   *)
C31_LazyExpiry ==
    [][/\ probe'.op = "get" /\ probe'.cache = "manager"
       /\ probe'.n = probe.n + 1
       /\ probe'.key \in DOMAIN cm.cache
       => LET item == cm.cache[probe'.key]
              timeout == get_or_default(cm.timeouts, probe'.category)
          IN IF clock - item.timestamp < timeout
             THEN probe'.value = item.value
             ELSE /\ probe'.value = None
                  /\ probe'.key \notin DOMAIN cm'.cache]_vars

(* C32: a handle that get_growid cached (with the timeout of 300 s) is    *)
(* returned from the cache, without a read of the store, by every          *)
(* get_growid of the identity that starts less than 300 s after the entry  *)
(* was written; a cached balance is returned for 30 s.                     *)
C32_ServedForItsTimeout ==
    [][\A t \in GrowidTasks \cup BalanceTasks :
          LET key == QueryKey(task[t]) IN
          /\ task[t].pc = "start"
          /\ task'[t] # task[t]
          /\ key \in DOMAIN bmCache
          /\ bmCache[key].timeout =
                (IF task[t].op = "get_growid" THEN GROWID_TIMEOUT ELSE CACHE_TIMEOUT)
          /\ clock - bmCache[key].timestamp < bmCache[key].timeout
          => /\ task'[t].outcome = "cached"
             /\ UNCHANGED bmCache]_vars

(* C33: each time calls of get take the hit count of an entry to a        *)
(* multiple of 100, the timeout of the category asked for is raised (by    *)
(* the growth factor, or to the maximum), and the timeout of no category   *)
(* ever passes the maximum.                                                *)
C33_AdaptiveTimeout ==
    /\ [][\A k \in DOMAIN cm.cache \cap DOMAIN cm'.cache :
             /\ cm'.cache[k].hits > cm.cache[k].hits
             /\ cm'.cache[k].hits % 100 = 0
             => LET c == cm.cache[k].category IN
                \/ cm'.timeouts[c] > cm.timeouts[c]
                \/ cm'.timeouts[c] = 7200]_vars
    /\ [](\A c \in DOMAIN cm.timeouts : cm.timeouts[c] <= 7200)

(* C34: no configuration command waits for config_lock while it holds    *)
(* config_lock itself.                                                     *)
C34_NoSelfWait ==
    \A c \in Cmds : ~(am.cmd[c].pc = "save_config" /\ am.config_lock = c)

(* C35: purchases of one handle, of different products as of the same,   *)
(* account for each other: a purchase succeeds only when the balance the   *)
(* earlier ones left covers its total and takes exactly its total from     *)
(* it, so the balance of the handle is the balance before the first        *)
(* purchase minus the totals of the purchases that succeeded.              *)
TotalOf(t) == products[task[t].code].price * task[t].quantity

C35_BothDebited ==
    /\ [](\A h \in PurchaseHandles :
             LET done == {t \in PurchaseTasks : Done(t) /\ task[t].growid = h}
                 paid == {t \in done : Succeeded(t)}
             IN done # {} =>
                  LET first == CHOOSE t \in done :
                                  \A u \in done : task[t].seq <= task[u].seq
                  IN users[h].wl = task[first].funds - SumOf(TotalOf, paid))
    /\ [][\A t \in PurchaseTasks :
             ~Done(t) /\ Succeeded(t)' =>
                /\ users[task[t].growid].wl >= TotalOf(t)
                /\ users'[task[t].growid].wl = users[task[t].growid].wl - TotalOf(t)]_vars

C35_Witness ==
    \E t, u \in PurchaseTasks :
        /\ task[t].growid = task[u].growid
        /\ task[t].code # task[u].code
        /\ Succeeded(t) /\ Succeeded(u)
        /\ task[t].seq < task[u].seq
        /\ task[u].funds = task[t].funds - TotalOf(t)
        /\ users[task[t].growid].wl = task[t].funds - TotalOf(t) - TotalOf(u)

EnginePrice(c) ==
    LET key == ProductCacheKey(c) IN
    IF key \in DOMAIN txCache /\ clock - txCache[key].timestamp < TX_CACHE_TIMEOUT
    THEN txCache[key].value.price
    ELSE products[c].price

C37_HistoryAfterPurchase ==
    [][\A t \in Tasks :
          /\ task[t].op = "get_transaction_history"
          /\ ~Done(t) /\ Done(t)'
          /\ task'[t].reported = "value"
          /\ \E u \in PurchaseTasks :
                Succeeded(u) /\ task[u].growid = task[t].growid
          => \E i \in 1..Len(task'[t].rows) :
                task'[t].rows[i].type = "PURCHASE"]_vars

(* C38: every get of the cache manager adds one to exactly one of the    *)
(* counters hits and misses; a get that finds its entry expired adds one   *)
(* to misses and one to evictions.                                         *)
C38_CountersAddUp ==
    [][/\ probe'.op = "get" /\ probe'.cache = "manager"
       /\ probe'.n = probe.n + 1
       => /\ cm'.metrics.hits + cm'.metrics.misses
                = cm.metrics.hits + cm.metrics.misses + 1
          /\ cm'.metrics.hits \in {cm.metrics.hits, cm.metrics.hits + 1}
          /\ cm'.metrics.misses \in {cm.metrics.misses, cm.metrics.misses + 1}
          /\ (/\ probe'.key \in DOMAIN cm.cache
              /\ ~(clock - cm.cache[probe'.key].timestamp
                      < get_or_default(cm.timeouts, probe'.category)))
             => /\ cm'.metrics.misses = cm.metrics.misses + 1
                /\ cm'.metrics.evictions = cm.metrics.evictions + 1]_vars

(* C39: no call of get lowers the timeout of a category.                 *)
C39_TimeoutNeverLowered ==
    [][\A c \in DOMAIN cm.timeouts :
          c \in DOMAIN cm'.timeouts /\ cm'.timeouts[c] >= cm.timeouts[c]]_vars

====
